---- MODULE Spec2Model ----
(***************************************************************************)
(* Model of the RLM execution engine (RLMEngine, REPLRuntime, TaskTracker  *)
(* and the RLM_SUBMIT_TASK / RLM_CANCEL IPC handlers).                     *)
(*                                                                         *)
(* Every `await` of runTask is a suspension point: the code between two    *)
(* awaits runs to completion on the Node event loop, so each action below  *)
(* is one such synchronous segment.  Several runTask loops can be in       *)
(* flight at once because the IPC handler is re-entrant; they share the    *)
(* engine's fields (status, repl, abortController, ...) and keep their own *)
(* locals (signal, iteration, consecutiveNoCodes, ...).                    *)
(***************************************************************************)
EXTENDS Integers, Sequences, FiniteSets, TLC

\* ---- bounds of the model -------------------------------------------------
MaxTasks   == 2      \* submits that are accepted
MaxTasksOverlap == 3 \* submits accepted in runs where loops overlap twice
MaxIterOverlap == 2  \* config.maxIterations of those runs
MaxCancels == 2      \* calls of cancel()
MaxRejects == 1      \* submits that are refused
MaxIter    == 4      \* largest configured config.maxIterations
MaxIterSub  == 2     \* iterations of a task that starts a sub-agent by llm_query
MaxIterWide == 1     \* largest maxIterations explored with a second loop or sub-agents
MaxSubs    == 2      \* sub-agents one run starts (the prompts of one llm_batch)
MaxQuerySubs == 1    \* sub-agents of a run that is cancelled or has cap 0
MaxBatches == 1      \* calls of llm_batch in one run
MaxPrompts == 2      \* prompts of one llm_batch
MaxTabs    == 2      \* tabs the blocks of a run open
MaxCancelsSub == 1   \* calls of cancel() in runs with sub-agents
MaxBlocks  == 2      \* most code blocks in one model response
MaxTokens  == 1      \* most stream-token events of one response
MaxNoKey   == 2      \* submits made while no API key is configured
MaxRecords == 5      \* iteration records of one history
MaxExecs   == 4      \* calls of execute on one REPL
MaxPending == 2      \* callbacks a block leaves behind that call setFinal later
MaxSegments == 4     \* parts of one model response
MaxParts   == 3      \* executed blocks whose summaries reach later prompts

\* ---- program constants ---------------------------------------------------
MAX_ITERATIONS            == 25
MAX_NO_CODE_CONTINUATIONS == 3
MAX_SUB_CALLS             == 50
MAX_SUB_ITERATIONS        == 10
CHARS_PER_TOKEN           == 4
HISTORY_TOKEN_BUDGET      == 8000
\* `HISTORY_TOKEN_BUDGET * 0.8`
HISTORY_COMPACTION_THRESHOLD == (HISTORY_TOKEN_BUDGET * 8) \div 10

Tasks == 1..MaxTasksOverlap
Subs  == 1..MaxSubs
TabIds == 1..MaxTabs

\* ---- summaries of executed blocks -----------------------------------------
\* Two runs of the same task are followed side by side; their block results
\* agree on length and on the characters a preview shows.
Runs == 1..2

\* a string result: its length, its first 250 characters, and the rest
Str(len, head, tail) == [type |-> "string", len |-> len, head |-> head, tail |-> tail]

\* the result of a block that returns nothing
Undefined == [type |-> "undefined"]

\* summarizeResult for `undefined` and for strings: up to 300 characters the
\* string is shown whole; beyond, `string (N chars)\nPreview: "<first 250>..."`
summarizeResult(result) ==
  IF result.type = "undefined" THEN [text |-> "void"]
  ELSE IF result.len > 300
  THEN [text |-> "string", chars |-> result.len, preview |-> result.head]
  ELSE [text |-> "string", value |-> <<result.head, result.tail>>]

\* `Code:\n  ${code}\nResult: ${this.summarizeResult(result)}`
summarize(code, result) == [code |-> code, result |-> summarizeResult(result)]

\* the user message a sub-agent gets after its blocks ran: `Code executed.`,
\* the block summaries and, when log() was called, `Log output:` with the text
continueMsg(blockMeta, subLogs) ==
  [blockMeta |-> blockMeta, logSection |-> subLogs]

\* fullMetadata of the main loop's iteration record
fullMetadata(blockMeta) == [blockMeta |-> blockMeta, logSection |-> <<>>]

\* ---- REPLRuntime: execute and the final flag --------------------------------
\* finalCalled and finalValue are the fields of the class; executing tells
\* whether a call of execute is between its start and its return, pending
\* counts the callbacks (promise continuations not awaited by their block)
\* that will still call setFinal, invoked records whether _setFinal ran since
\* the latest call of execute began, executions counts the calls.
NewRuntime ==
  [finalCalled |-> FALSE, finalValue |-> "undefined", executing |-> FALSE,
   pending |-> 0, invoked |-> FALSE, executions |-> 0]

\* the start of execute without `this.finalCalled = false`
executeKeepFlag(rt) ==
  [rt EXCEPT !.executing = TRUE, !.invoked = FALSE, !.executions = @ + 1]

\* execute up to its `await this.context.eval(...)`
execute(rt) ==
  [rt EXCEPT !.finalCalled = FALSE,
             !.executing = TRUE, !.invoked = FALSE, !.executions = @ + 1]

\* the _setFinal reference called from the isolate
setFinal(rt, value) ==
  [rt EXCEPT !.finalCalled = TRUE, !.finalValue = value,
             !.invoked = @ \/ rt.executing]

\* ---- parser.ts: extractCodeBlocks --------------------------------------------
\* A response is the sequence of its parts: a ```repl block with code or with
\* nothing but white space, a block under another fence tag with code or
\* empty, an object {"code": "..."}, lines that look like JavaScript, prose.
\* A block that is extracted is named by the position of its part.
Segments == {"repl", "repl_empty", "fenced", "fenced_empty", "json", "bare", "prose"}

Positions(resp, kinds) == {i \in 1..Len(resp) : resp[i] \in kinds}

\* the positions of ps in textual order
RECURSIVE InOrder(_, _)
InOrder(ps, from) ==
  IF \A p \in ps : p < from THEN <<>>
  ELSE (IF from \in ps THEN <<from>> ELSE <<>>) \o InOrder(ps, from + 1)

\* extractFenced(response, 'repl'): every ```repl block whose trimmed body is
\* not empty
extractFenced(resp) == InOrder(Positions(resp, {"repl"}), 1)

\* extractAnyFenced: /```(?:\w*)\s*\n([\s\S]*?)```/g, whatever the tag
extractAnyFenced(resp) == InOrder(Positions(resp, {"repl", "fenced"}), 1)

\* extractFromToolCallJSON: the whole response parses as JSON, or the text
\* from the first brace to the end of a "code" member does
extractFromToolCallJSON(resp) ==
  LET js == Positions(resp, {"json"})
  IN  IF Cardinality(js) = 1
         /\ \A i \in 1..Len(resp) : (i < CHOOSE j \in js : TRUE) => resp[i] = "prose"
      THEN InOrder(js, 1)
      ELSE <<>>

\* extractBareCode: the code-like lines, joined into one block
extractBareCode(resp) ==
  LET bs == Positions(resp, {"bare"})
  IN  IF bs = {} THEN <<>> ELSE <<CHOOSE b \in bs : \A c \in bs : b <= c>>

\* a chain that tries any fence before the repl fence
extractAnyFencedFirst(resp) ==
  IF extractAnyFenced(resp) # <<>> THEN extractAnyFenced(resp)
  ELSE IF extractFenced(resp) # <<>> THEN extractFenced(resp)
  ELSE IF extractFromToolCallJSON(resp) # <<>> THEN extractFromToolCallJSON(resp)
  ELSE extractBareCode(resp)

extractCodeBlocks(resp) ==
  IF extractFenced(resp) # <<>> THEN extractFenced(resp)
  ELSE IF extractAnyFenced(resp) # <<>> THEN extractAnyFenced(resp)
  ELSE IF extractFromToolCallJSON(resp) # <<>> THEN extractFromToolCallJSON(resp)
  ELSE extractBareCode(resp)

\* ---- TabDiffer --------------------------------------------------------------
\* A map from tab id to state is a function on the ids it holds; <<>> is the
\* empty map.
TabState(url, title, status) == [url |-> url, title |-> title, status |-> status]

Change(id, field, old, new) == [tabId |-> id, field |-> field, old |-> old, new |-> new]

\* capture: the snapshot becomes a copy of the map handed in
capture(m) == m

\* a loop body that reports the url of a tab the snapshot does not hold
DiffTabNew(snap, current, id) ==
  IF id \notin DOMAIN snap
  THEN <<Change(id, "url", "", current[id].url)>>
  ELSE <<>>

\* the body of diff's loop for one tab of the current map
DiffTab(snap, current, id) ==
  IF id \notin DOMAIN snap THEN <<>>
  ELSE LET prev == snap[id]
           cur  == current[id]
       IN  (IF prev.url # cur.url
            THEN <<Change(id, "url", prev.url, cur.url)>> ELSE <<>>)
           \o (IF prev.title # cur.title
               THEN <<Change(id, "title", prev.title, cur.title)>> ELSE <<>>)
           \o (IF prev.status # cur.status
               THEN <<Change(id, "status", prev.status, cur.status)>> ELSE <<>>)

\* diff: the tabs of the current map in the order of their ids
RECURSIVE DiffFrom(_, _, _)
DiffFrom(snap, current, id) ==
  IF id > MaxTabs THEN <<>>
  ELSE (IF id \in DOMAIN current THEN DiffTab(snap, current, id) ELSE <<>>)
       \o DiffFrom(snap, current, id + 1)

diff(snap, current) == DiffFrom(snap, current, 1)

\* ---- history.ts: compactHistory ------------------------------------------
\* A text is kept as its length in characters, together with the numbers of
\* the iteration records whose fullMetadata it contains whole, and whether the
\* compaction threshold was passed when it was built.
Text(len, verbatim, compacted) ==
  [len |-> len, verbatim |-> verbatim, compacted |-> compacted]

\* an iteration record: its number and the lengths of its two summaries
IterationRecord(number, full, oneLiner) ==
  [number |-> number, fullMetadata |-> full, oneLinerSummary |-> oneLiner]

\* `Math.ceil(text.length / CHARS_PER_TOKEN)`
estimateTokens(len) == (len + CHARS_PER_TOKEN - 1) \div CHARS_PER_TOKEN

\* length of `parts.join(sep)` for parts of lengths ls and a separator of sep chars
RECURSIVE JoinLen(_, _)
JoinLen(ls, sep) ==
  IF Len(ls) = 0 THEN 0
  ELSE IF Len(ls) = 1 THEN ls[1]
  ELSE ls[1] + sep + JoinLen(Tail(ls), sep)

\* length of `${n}` for an iteration number
DecimalLen(n) == IF n < 10 THEN 1 ELSE IF n < 100 THEN 2 ELSE 3

\* length of `s.slice(0, end)` for a string of len chars and end >= 0
SliceLen(len, end) == IF end < len THEN end ELSE len

Numbers(its) == {its[i].number : i \in 1..Len(its)}

compactHistory(its) ==
  LET n            == Len(its)
      fullText     == JoinLen([i \in 1..n |-> its[i].fullMetadata], 2)
      recentCount  == IF n < 3 THEN n ELSE 3
      recent       == SubSeq(its, n - recentCount + 1, n)
      older        == SubSeq(its, 1, n - recentCount)
      \* `Iter ${i.number}: ${i.oneLinerSummary}` joined by '. '
      condensed    == JoinLen([i \in 1..Len(older) |->
                                 5 + DecimalLen(older[i].number) + 2
                                   + older[i].oneLinerSummary], 2)
      \* '## Earlier iterations (condensed)\n'
      header       == 34
      recentFull   == JoinLen([i \in 1..recentCount |-> recent[i].fullMetadata], 2)
      combined     == header + condensed + 2 + recentFull
      maxCondensedChars == (HISTORY_TOKEN_BUDGET - estimateTokens(recentFull)) * 4
      sliceEnd     == IF maxCondensedChars > 200 THEN maxCondensedChars ELSE 200
      truncatedSummary == header + SliceLen(condensed, sliceEnd) + 3
  IN  IF n = 0 THEN Text(0, {}, FALSE)
      ELSE IF estimateTokens(fullText) <= HISTORY_COMPACTION_THRESHOLD
      THEN Text(fullText, Numbers(its), FALSE)
      ELSE IF Len(older) = 0
      THEN Text(recentFull, Numbers(recent), TRUE)
      ELSE IF estimateTokens(combined) > HISTORY_TOKEN_BUDGET
      THEN Text(truncatedSummary + 2 + recentFull, Numbers(recent), TRUE)
      ELSE Text(combined, Numbers(recent), TRUE)

\* what a code block does inside the isolate
Kinds == {"plain", "throw", "final_str", "final_nan", "final_undef"}

\* ... and `setFinal(await llm_query(...))` in a block of the main agent
BlockKinds == Kinds \cup {"final_sub"}

VARIABLES
  status,              \* RLMEngine.status
  abortController,     \* RLMEngine.abortController: 0 = null, t = the one task t created
  aborted,             \* aborted[t]: signal of the controller task t created
  repl,                \* RLMEngine.repl: 0 = null, t = the REPL task t created
  replFinalCalled,     \* REPLRuntime.finalCalled of each REPL
  replFinalValue,      \* REPLRuntime.finalValue of each REPL
  replDisposed,        \* REPLRuntime.context === null after dispose()
  subCallCount,        \* RLMEngine.subCallCount
  trackerIterations,   \* TaskTracker.iterations.length
  maxIterations,       \* config.maxIterations
  pc,                  \* where each runTask call is suspended
  maxIter,             \* runTask local maxIter
  iteration,           \* runTask local iteration (0-based)
  consecutiveNoCodes,  \* runTask local
  codeBlocks,          \* runTask local: number of extracted blocks
  bi,                  \* runTask local block index
  finalCalled,         \* runTask local
  execRepl,            \* the REPL on which the pending execute() was called
  tokens,              \* stream-token events of the pending stream
  conversationHistory, \* runTask local conversation history
  lastEv,              \* observer: the latest event of each task
  nComplete,           \* observer: complete events of each task so far
  nIterStart,          \* observer: iteration-start events of each task so far
  nError,              \* observer: error events of each task so far
  late,                \* observer: an event of the task came after its complete
  nCancelComplete,     \* observer: complete events sent by cancel() itself
  submitted,           \* accepted submits so far
  rejected,            \* refused submits so far
  cancels,             \* cancel() calls so far
  outcome,             \* how each runTask call ended
  cancelSeen,          \* cancel() was called while the loop of t was active
  finalArg,            \* argument of the latest setFinal call of a block of t
  finalIter,           \* iteration (1-based) of that call
  maxSubCalls,        \* config.maxSubCalls
  blockWait,          \* the sub-agent the pending block of t awaits (0: none)
  spc,                \* where each handleSubCall is suspended
  sParent,            \* the task whose block called llm_query
  sAwaited,           \* the calling block awaits the result
  sHasData,           \* handleSubCall: data !== undefined
  si,                 \* handleSubCall local i
  sNoCodes,           \* handleSubCall local consecutiveNoCodes
  sLlmErrors,         \* handleSubCall local llmErrors
  sBlocks,            \* handleSubCall local codeBlocks.length
  sBi,                \* index of the block the sub-REPL runs
  sSignal,            \* controller whose signal the pending complete() got (0: undefined)
  subFinalCalled,     \* finalCalled of the sub-REPL
  subDisposed,        \* the sub-REPL was disposed
  sResult,            \* what handleSubCall resolved to
  taskBudget,          \* submits the environment makes that can be accepted
  blockSub,            \* what the llm_query of the block t runs resolved to
  subBudget,           \* sub-agents the environment lets llm_query start in one run
  batchBudget,         \* calls of llm_batch the environment makes
  subData,             \* whether the environment's llm_query calls pass data
  subResponses,        \* block counts of the responses the sub-agents' model gives
  tabBudget,           \* tabs the environment lets a sub-agent open
  tabsDirty,           \* the open tabs differ from TabManager's snapshot
  tabChanges,          \* whether the environment changes tabs during the run
  lastOrd,             \* latest event of the loop the order of an iteration speaks of
  orderOk,             \* every such event so far followed its predecessor in order
  sIter,               \* number of the parent's iteration in which k was started
  iterOk,              \* every event of t so far carried the number of t's current iteration
  sNested,             \* what the nested llm_query or llm_batch of k's running block resolved to
  nestedCalls,         \* whether the blocks of sub-agents call llm_query and llm_batch
  tabs,                \* ids of the tabs that are open, of those opened during the run
  tabSeq,              \* tabs opened during the run so far (nextTabId)
  sPre,                \* preExistingTabIds of k, of the tabs opened during the run
  sOpened,             \* tabs the blocks of k opened
  sPrompt,             \* place of k's prompt in the llm_batch that started k, 0 for llm_query
  batchRes,            \* per prompt of the llm_batch of t's running block, the settled promise
  nBatches,            \* calls of llm_batch so far
  sCancelAt,           \* where sub-agent k was when cancel() was called on its running task
  sCalls,              \* calls of llmClient.complete sub-agent k has made
  sLastUser,           \* the user message the last pass of k's loop pushed, none in a pass with code
  apiKey,              \* getSettings().apiKey is set
  noKeyLog,            \* events sent by each submit that found no API key
  iterations,          \* taskTracker.getIterations(): the records of the run
  history,             \* compactHistory(iterations), the history section of the prompt
  prompts,             \* per run: what later prompts hold about the executed blocks
  changedIn,           \* per task: a snapshotted tab changed while the current iteration streamed or executed
  tabMap,              \* TabManager: url, title and status of every open tab
  snapshots,           \* TabDiffer.snapshots
  pageChanges,         \* what the last getChanges() returned
  runtime,             \* one REPLRuntime: its flag and value, and the code running in its isolate
  response,            \* the text of a model response, as its parts in order
  blocks,              \* extractCodeBlocks(response)
  execResult,          \* the last block: what it produced and what execute returned
  tabResult,           \* the last execInTab: what the page produced and what the block received
  cancelBudget,        \* calls of cancel() the environment makes
  rejectBudget,        \* submits the environment makes while a task runs
  streamFailed,        \* the stream of t rejected
  blockError,          \* `error` of the BlockResult t pushed last is set
  lateBlock,           \* t began a code block after cancel() was called on it
  lateIter             \* t emitted iteration-start after cancel() was called on it

vars == <<status, abortController, aborted, repl, replFinalCalled,
          replFinalValue, replDisposed, subCallCount, trackerIterations,
          maxIterations, pc, maxIter, iteration, consecutiveNoCodes,
          codeBlocks, bi, finalCalled, execRepl, tokens,
          conversationHistory, lastEv, nComplete, nIterStart, nError,
          late, nCancelComplete, submitted, rejected, cancels,
          outcome, cancelSeen, finalArg, finalIter, taskBudget, streamFailed,
          blockError, lateBlock, lateIter, maxSubCalls, blockWait, spc,
          sParent, sAwaited, sHasData, si, sNoCodes, sLlmErrors, sBlocks,
          sBi, sSignal, subFinalCalled, subDisposed, sResult, blockSub,
          subBudget,
          batchBudget,
          subData,
          subResponses,
          tabBudget,
          tabsDirty,
          tabChanges,
          lastOrd,
          orderOk,
          sIter,
          iterOk,
          sNested,
          nestedCalls,
          tabs,
          tabSeq,
          sPre,
          sOpened,
          sPrompt,
          batchRes,
          nBatches,
          sCancelAt,
          sCalls,
          sLastUser,
          apiKey,
          noKeyLog,
          iterations,
          history,
          prompts,
          changedIn,
          tabMap,
          snapshots,
          pageChanges,
          runtime,
          response,
          blocks,
          execResult,
          tabResult,
          cancelBudget, rejectBudget>>

\* The whole state as one record, so that a synchronous segment can be
\* written as a composition of the statements it runs.
State ==
  [status |-> status, abortController |-> abortController, aborted |-> aborted,
   repl |-> repl, replFinalCalled |-> replFinalCalled,
   replFinalValue |-> replFinalValue, replDisposed |-> replDisposed,
   subCallCount |-> subCallCount, trackerIterations |-> trackerIterations,
   maxIterations |-> maxIterations, pc |-> pc, maxIter |-> maxIter,
   iteration |-> iteration, consecutiveNoCodes |-> consecutiveNoCodes,
   codeBlocks |-> codeBlocks, bi |-> bi, finalCalled |-> finalCalled,
   execRepl |-> execRepl, tokens |-> tokens,
   conversationHistory |-> conversationHistory, lastEv |-> lastEv,
   nComplete |-> nComplete, nIterStart |-> nIterStart, nError |-> nError,
   late |-> late, nCancelComplete |-> nCancelComplete,
   submitted |-> submitted, rejected |-> rejected, cancels |-> cancels,
   outcome |-> outcome, cancelSeen |-> cancelSeen, finalArg |-> finalArg,
   finalIter |-> finalIter, taskBudget |-> taskBudget,
   streamFailed |-> streamFailed, blockError |-> blockError,
   lateBlock |-> lateBlock, lateIter |-> lateIter,
   maxSubCalls |-> maxSubCalls,
   blockWait |-> blockWait,
   spc |-> spc,
   sParent |-> sParent,
   sAwaited |-> sAwaited,
   sHasData |-> sHasData,
   si |-> si,
   sNoCodes |-> sNoCodes,
   sLlmErrors |-> sLlmErrors,
   sBlocks |-> sBlocks,
   sBi |-> sBi,
   sSignal |-> sSignal,
   subFinalCalled |-> subFinalCalled,
   subDisposed |-> subDisposed,
   sResult |-> sResult,
   blockSub |-> blockSub,
   subBudget |-> subBudget,
   batchBudget |-> batchBudget,
   subData |-> subData,
   subResponses |-> subResponses,
   tabBudget |-> tabBudget,
   tabsDirty |-> tabsDirty,
   tabChanges |-> tabChanges,
   lastOrd |-> lastOrd,
   orderOk |-> orderOk,
   sIter |-> sIter,
   iterOk |-> iterOk,
   sNested |-> sNested,
   nestedCalls |-> nestedCalls,
   tabs |-> tabs,
   tabSeq |-> tabSeq,
   sPre |-> sPre,
   sOpened |-> sOpened,
   sPrompt |-> sPrompt,
   batchRes |-> batchRes,
   nBatches |-> nBatches,
   sCancelAt |-> sCancelAt,
   sCalls |-> sCalls,
   sLastUser |-> sLastUser,
   apiKey |-> apiKey,
   noKeyLog |-> noKeyLog,
   iterations |-> iterations,
   history |-> history,
   prompts |-> prompts,
   changedIn |-> changedIn,
   tabMap |-> tabMap,
   snapshots |-> snapshots,
   pageChanges |-> pageChanges,
   runtime |-> runtime,
   response |-> response,
   blocks |-> blocks,
   execResult |-> execResult,
   tabResult |-> tabResult,
   cancelBudget |-> cancelBudget,
   rejectBudget |-> rejectBudget]

Commit(s) ==
  /\ status' = s.status
  /\ abortController' = s.abortController
  /\ aborted' = s.aborted
  /\ repl' = s.repl
  /\ replFinalCalled' = s.replFinalCalled
  /\ replFinalValue' = s.replFinalValue
  /\ replDisposed' = s.replDisposed
  /\ subCallCount' = s.subCallCount
  /\ trackerIterations' = s.trackerIterations
  /\ maxIterations' = s.maxIterations
  /\ pc' = s.pc
  /\ maxIter' = s.maxIter
  /\ iteration' = s.iteration
  /\ consecutiveNoCodes' = s.consecutiveNoCodes
  /\ codeBlocks' = s.codeBlocks
  /\ bi' = s.bi
  /\ finalCalled' = s.finalCalled
  /\ execRepl' = s.execRepl
  /\ tokens' = s.tokens
  /\ conversationHistory' = s.conversationHistory
  /\ lastEv' = s.lastEv
  /\ nComplete' = s.nComplete
  /\ nIterStart' = s.nIterStart
  /\ nError' = s.nError
  /\ late' = s.late
  /\ nCancelComplete' = s.nCancelComplete
  /\ submitted' = s.submitted
  /\ rejected' = s.rejected
  /\ cancels' = s.cancels
  /\ outcome' = s.outcome
  /\ cancelSeen' = s.cancelSeen
  /\ finalArg' = s.finalArg
  /\ finalIter' = s.finalIter
  /\ taskBudget' = s.taskBudget
  /\ streamFailed' = s.streamFailed
  /\ blockError' = s.blockError
  /\ lateBlock' = s.lateBlock
  /\ lateIter' = s.lateIter
  /\ maxSubCalls' = s.maxSubCalls
  /\ blockWait' = s.blockWait
  /\ spc' = s.spc
  /\ sParent' = s.sParent
  /\ sAwaited' = s.sAwaited
  /\ sHasData' = s.sHasData
  /\ si' = s.si
  /\ sNoCodes' = s.sNoCodes
  /\ sLlmErrors' = s.sLlmErrors
  /\ sBlocks' = s.sBlocks
  /\ sBi' = s.sBi
  /\ sSignal' = s.sSignal
  /\ subFinalCalled' = s.subFinalCalled
  /\ subDisposed' = s.subDisposed
  /\ sResult' = s.sResult
  /\ blockSub' = s.blockSub
  /\ subBudget' = s.subBudget
  /\ batchBudget' = s.batchBudget
  /\ subData' = s.subData
  /\ subResponses' = s.subResponses
  /\ tabBudget' = s.tabBudget
  /\ tabsDirty' = s.tabsDirty
  /\ tabChanges' = s.tabChanges
  /\ lastOrd' = s.lastOrd
  /\ orderOk' = s.orderOk
  /\ sIter' = s.sIter
  /\ iterOk' = s.iterOk
  /\ sNested' = s.sNested
  /\ nestedCalls' = s.nestedCalls
  /\ tabs' = s.tabs
  /\ tabSeq' = s.tabSeq
  /\ sPre' = s.sPre
  /\ sOpened' = s.sOpened
  /\ sPrompt' = s.sPrompt
  /\ batchRes' = s.batchRes
  /\ nBatches' = s.nBatches
  /\ sCancelAt' = s.sCancelAt
  /\ sCalls' = s.sCalls
  /\ sLastUser' = s.sLastUser
  /\ apiKey' = s.apiKey
  /\ noKeyLog' = s.noKeyLog
  /\ iterations' = s.iterations
  /\ history' = s.history
  /\ prompts' = s.prompts
  /\ changedIn' = s.changedIn
  /\ tabMap' = s.tabMap
  /\ snapshots' = s.snapshots
  /\ pageChanges' = s.pageChanges
  /\ runtime' = s.runtime
  /\ response' = s.response
  /\ blocks' = s.blocks
  /\ execResult' = s.execResult
  /\ tabResult' = s.tabResult
  /\ cancelBudget' = s.cancelBudget
  /\ rejectBudget' = s.rejectBudget

\* ---- events ----------------------------------------------------------------
\* src: "loop" (emitted by runTask of `task`), "cancel" (emitted by cancel();
\* task is the controller it aborted, 0 if none) or "ipc" (the IPC handler).
Ev(type, src, task, iter, idx, val) ==
  [type |-> type, src |-> src, task |-> task, iter |-> iter, idx |-> idx, val |-> val]

NoEvent == Ev("none", "none", 0, 0, 0, "")

\* The events whose order within an iteration the window relies on, and the
\* order itself: `e` may come right after `prev`.
OrderedTypes ==
  {"iteration-start", "page-changes", "stream-token", "code-generated", "code-result"}

Follows(prev, e) ==
  CASE e.type = "iteration-start" -> TRUE
    [] e.type = "page-changes" ->
         prev.type = "iteration-start" /\ prev.iter = e.iter
    [] e.type = "stream-token" ->
         /\ prev.type \in {"iteration-start", "page-changes", "stream-token"}
         /\ prev.iter = e.iter
    [] e.type = "code-generated" ->
         /\ prev.iter = e.iter
         /\ IF e.idx = 0
            THEN prev.type \in {"iteration-start", "page-changes", "stream-token"}
            ELSE prev.type = "code-result" /\ prev.idx = e.idx - 1
    [] e.type = "code-result" ->
         prev.type = "code-generated" /\ prev.iter = e.iter /\ prev.idx = e.idx
    [] OTHER -> TRUE

\* The events that belong to an iteration, and the number such an event has
\* to carry when `n` iteration-start events of its task came before it.
IterationTypes ==
  OrderedTypes \cup {"env-update", "sub-llm-start", "sub-llm-complete"}

InIteration(n, e) ==
  CASE e.type = "iteration-start" -> e.iter = n + 1
    [] e.type \in IterationTypes -> e.iter = n
    [] OTHER -> TRUE

\* RLMEngine.emit: the event reaches the observer, which keeps, for the task
\* the event belongs to, the latest event and what it has counted so far.
emit(s, e) ==
  LET t  == e.task
      s0 == IF e.src = "cancel" THEN [s EXCEPT !.nCancelComplete = @ + 1] ELSE s
      s1 == IF e.type \in OrderedTypes
            THEN [s0 EXCEPT !.orderOk = @ /\ Follows(s.lastOrd, e), !.lastOrd = e]
            ELSE s0
  IN  IF t = 0 THEN s1
      ELSE [s1 EXCEPT !.lastEv[t] = e,
                      !.iterOk[t] = @ /\ InIteration(s.nIterStart[t], e),
                      !.late[t] = @ \/ s.nComplete[t] > 0,
                      !.nComplete[t] = IF e.type = "complete" THEN @ + 1 ELSE @,
                      !.nIterStart[t] = IF e.type = "iteration-start" THEN @ + 1 ELSE @,
                      !.nError[t] = IF e.type = "error" THEN @ + 1 ELSE @]

Active(p) == p \notin {"none", "done"}

\* JSON.parse(JSON.stringify(value)) of setFinal's wrapper inside the isolate:
\* "throws" when JSON.stringify yields undefined.
JsonRoundTrip(v) ==
  CASE v = "nan"   -> "null"
    [] v = "undef" -> "throws"
    [] OTHER       -> v

\* `this.config.maxIterations || MAX_ITERATIONS`
MaxIterOf(cfg) == IF cfg = 0 THEN MAX_ITERATIONS ELSE cfg

\* ---- the finally block of runTask ------------------------------------------
Cleanup(s) ==
  [s EXCEPT !.replDisposed = IF s.repl # 0
                               THEN [@ EXCEPT ![s.repl] = TRUE] ELSE @,
            !.repl = 0,
            !.abortController = 0]

\* runTask returns from inside the try block
Exit(s, t, how) ==
  [Cleanup(s) EXCEPT !.pc[t] = "done", !.outcome[t] = how]

\* an exception leaves runTask: finally, then the handler's catch sends rlm:error
Thrown(s, t) ==
  emit(Exit(s, t, "thrown"), Ev("error", "ipc", t, s.iteration[t] + 1, 0, "exception"))

\* ---- head of the for loop, up to `await buildMessages(...)` ----------------
LoopHead(s, t) ==
  IF s.iteration[t] >= s.maxIter[t]
  THEN \* hit iteration cap
       Exit(emit([s EXCEPT !.status = "complete"],
                 Ev("complete", "loop", t, s.iteration[t], 0, "cap")),
            t, "complete-cap")
  ELSE IF s.aborted[t]
  THEN Exit(emit([s EXCEPT !.status = "cancelled"],
                 Ev("complete", "loop", t, s.iteration[t], 0, "cancelled-partial")),
            t, "cancelled")
  ELSE LET s0 == emit([s EXCEPT !.lateIter[t] = @ \/ s.cancelSeen[t],
                                  !.changedIn[t] = FALSE],
                       Ev("iteration-start", "loop", t, s.iteration[t] + 1, 0, ""))
           \* tabManager.getChanges(): the diff against the snapshot
           s1 == IF s0.tabsDirty
                 THEN emit(s0, Ev("page-changes", "loop", t, s.iteration[t] + 1, 0, ""))
                 ELSE s0
       IN  IF s1.repl = 0
           THEN \* buildEnvMetadata: repl.getEnvMetadata() on null
                Thrown(s1, t)
           ELSE [s1 EXCEPT !.pc[t] = "ctx"]

\* ---- one code block: code-generated, then the call of this.repl.execute ----
StartBlock(s, t) ==
  LET s1 == emit([s EXCEPT !.lateBlock[t] = @ \/ s.cancelSeen[t]],
                 Ev("code-generated", "loop", t, s.iteration[t] + 1, s.bi[t], ""))
  IN  IF s1.repl = 0
      THEN Thrown(s1, t)                 \* this.repl is null
      ELSE IF s1.replDisposed[s1.repl]
      THEN Thrown(s1, t)                 \* 'REPL not initialized'
      ELSE [s1 EXCEPT !.replFinalCalled[s1.repl] = FALSE,
                      !.execRepl[t] = s1.repl,
                      !.blockSub[t] = "none",
                      !.batchRes[t] = <<>>,
                      !.pc[t] = "exec"]

\* ---- after the block loop: record, snapshot, history, termination check ----
Record(s, t) ==
  LET s1 == [s EXCEPT !.trackerIterations = @ + 1,
                      !.tabsDirty = FALSE,          \* captureSnapshot()
                      !.conversationHistory[t] =
                          @ \o <<"user:context", "assistant:code">>]
  IN  IF s1.finalCalled[t]
      THEN LET s2 == [s1 EXCEPT !.status = "complete"]
           IN  IF s2.repl = 0
               THEN Thrown(s2, t)        \* this.repl.getFinalValue() on null
               ELSE Exit(emit(s2, Ev("complete", "loop", t, s.iteration[t] + 1, 0,
                                     s2.replFinalValue[s2.repl])),
                         t, "complete-final")
      ELSE LoopHead([s1 EXCEPT !.iteration[t] = @ + 1], t)

\* `if (this.repl) { await this.repl.getEnvMetadata(); emit env-update }`
AfterBlocks(s, t) ==
  IF s.repl # 0 THEN [s EXCEPT !.pc[t] = "envmeta"] ELSE Record(s, t)

\* ---- a response without code blocks ----------------------------------------
\* the no-code path giving up one response late
NoCodeLate(s, t) ==
  LET s1 == [s EXCEPT !.consecutiveNoCodes[t] = @ + 1,
                      !.conversationHistory[t] =
                          @ \o <<"user:context", "assistant:nocode", "user:continue">>]
  IN  IF s1.consecutiveNoCodes[t] > MAX_NO_CODE_CONTINUATIONS
      THEN Exit(emit(emit([s1 EXCEPT !.status = "error"],
                          Ev("error", "loop", t, s.iteration[t] + 1, 0, "nocode")),
                     Ev("complete", "loop", t, s.iteration[t] + 1, 0, "null")),
                t, "error-nocode")
      ELSE LoopHead([s1 EXCEPT !.trackerIterations = @ + 1,
                               !.iteration[t] = @ + 1], t)

NoCode(s, t) ==
  LET s1 == [s EXCEPT !.consecutiveNoCodes[t] = @ + 1,
                      !.conversationHistory[t] =
                          @ \o <<"user:context", "assistant:nocode", "user:continue">>]
  IN  IF s1.consecutiveNoCodes[t] >= MAX_NO_CODE_CONTINUATIONS
      THEN Exit(emit(emit([s1 EXCEPT !.status = "error"],
                          Ev("error", "loop", t, s.iteration[t] + 1, 0, "nocode")),
                     Ev("complete", "loop", t, s.iteration[t] + 1, 0, "null")),
                t, "error-nocode")
      ELSE LoopHead([s1 EXCEPT !.trackerIterations = @ + 1,
                               !.iteration[t] = @ + 1], t)

\* the two places where runTask notices its aborted signal around the stream
CancelledExit(s, t) ==
  Exit(emit([s EXCEPT !.status = "cancelled"],
            Ev("complete", "loop", t, s.iteration[t] + 1, 0, "cancelled")),
       t, "cancelled")

\* the catch around streamCompletion
StreamError(s, t) ==
  IF s.aborted[t]
  THEN CancelledExit(s, t)
  ELSE Exit(emit(emit([s EXCEPT !.status = "error"],
                      Ev("error", "loop", t, s.iteration[t] + 1, 0, "llm")),
                 Ev("complete", "loop", t, s.iteration[t] + 1, 0, "null")),
            t, "error-llm")

\* ---- the effect of a block inside the isolate and the return of execute ----
IsFinalKind(kind) == kind \in {"final_str", "final_nan", "final_undef", "final_sub"}

ArgOf(kind) ==
  CASE kind = "final_str"   -> "str"
    [] kind = "final_nan"   -> "nan"
    [] kind = "final_undef" -> "undef"

\* the argument of setFinal in a block of task t
BlockArg(s, t, kind) ==
  IF kind = "final_sub" THEN s.blockSub[t] ELSE ArgOf(kind)

\* setFinal(value) of the bootstrap, then _setFinal on the host
RunBlock(s, t, kind) ==
  LET r == s.execRepl[t]
  IN  IF IsFinalKind(kind)
      THEN LET v  == JsonRoundTrip(BlockArg(s, t, kind))
               s1 == [s EXCEPT !.finalArg[t] = BlockArg(s, t, kind),
                               !.finalIter[t] = s.iteration[t] + 1]
           IN  IF v = "throws" THEN s1
               ELSE [s1 EXCEPT !.replFinalCalled[r] = TRUE,
                               !.replFinalValue[r] = v]
      ELSE s

\* execute() returns the __rlm_error sentinel instead of raising
IsErrorResult(s, t, kind) ==
  \/ kind = "throw"
  \/ IsFinalKind(kind) /\ JsonRoundTrip(BlockArg(s, t, kind)) = "throws"
  \/ s.replDisposed[s.execRepl[t]]

AfterExecute(s, t, isErr) ==
  LET s1 == emit([s EXCEPT !.blockError[t] = isErr],
                 Ev("code-result", "loop", t, s.iteration[t] + 1, s.bi[t],
                    IF isErr THEN "ERROR" ELSE "ok"))
  IN  IF s1.repl = 0
      THEN Thrown(s1, t)                 \* this.repl.isFinalCalled() on null
      ELSE IF s1.replFinalCalled[s1.repl]
      THEN AfterBlocks([s1 EXCEPT !.finalCalled[t] = TRUE], t)
      ELSE IF s1.aborted[t]
      THEN AfterBlocks(s1, t)
      ELSE IF s1.bi[t] + 1 < s1.codeBlocks[t]
      THEN StartBlock([s1 EXCEPT !.bi[t] = @ + 1], t)
      ELSE AfterBlocks(s1, t)

\* ---- cancel() ---------------------------------------------------------------
\* cancel() that reports only when it had a controller to abort
CancelEffectSilent(s) ==
  LET c == s.abortController
  IN  IF c # 0
      THEN emit([s EXCEPT !.aborted[c] = TRUE, !.status = "cancelled"],
                Ev("complete", "cancel", c, 0, 0, "cancelled"))
      ELSE [s EXCEPT !.status = "cancelled"]

CancelEffect(s) ==
  LET c  == s.abortController
      s0 == [s EXCEPT !.sCancelAt =
                        [k \in Subs |->
                           IF c # 0 /\ s.sParent[k] = c /\ @[k] = "none"
                              /\ s.spc[k] \notin {"none", "done"}
                           THEN s.spc[k] ELSE @[k]]]
      s1 == IF c # 0 THEN [s0 EXCEPT !.aborted[c] = TRUE] ELSE s0
  IN  emit([s1 EXCEPT !.status = "cancelled"],
           Ev("complete", "cancel", c, 0, 0, "cancelled"))

\* ---- runTask up to `await this.repl.initialize()` ---------------------------
StartTask(s, t) ==
  [s EXCEPT !.status = "running",
            !.subCallCount = 0,
            !.abortController = t,
            !.maxIter[t] = MaxIterOf(s.maxIterations),
            !.trackerIterations = 0,
            !.repl = t,
            !.pc[t] = "init",
            !.submitted = t]

\* a busy check that reports the error after the per-run counters were reset
RejectTaskReset(s) ==
  emit([s EXCEPT !.rejected = @ + 1, !.subCallCount = 0, !.trackerIterations = 0],
       Ev("error", "submit", 0, 0, 0, "busy"))

RejectTask(s) ==
  emit([s EXCEPT !.rejected = @ + 1], Ev("error", "submit", 0, 0, 0, "busy"))

\* ---- handleSubCall ---------------------------------------------------------
\* `this.config.maxSubCalls || MAX_SUB_CALLS`
MaxSubCallsOf(cfg) == IF cfg = 0 THEN MAX_SUB_CALLS ELSE cfg

\* `this.abortController?.signal.aborted`, read when the sub-agent looks
SubSeesAbort(s) == s.abortController # 0 /\ s.aborted[s.abortController]

\* handleSubCall returns res: the finally block disposes the sub-REPL and the
\* block that awaited the promise goes on
\* the elements of Promise.allSettled over the handleSubCall promises
Pending == [status |-> "pending", value |-> "none"]

Settled(v) == [status |-> "fulfilled", value |-> v]

SubReturnLeak(s, k, res) ==
  [s EXCEPT !.spc[k] = "done",
            !.sResult[k] = res,
            !.subDisposed[k] = TRUE,
            !.blockSub = [t \in Tasks |-> IF s.blockWait[t] = k THEN res ELSE @[t]],
            !.blockWait = [t \in Tasks |-> IF @[t] = k THEN 0 ELSE @[t]],
            !.batchRes = [t \in Tasks |->
                            IF s.sParent[k] = t /\ s.sPrompt[k] \in DOMAIN @[t]
                            THEN [@[t] EXCEPT ![s.sPrompt[k]] = Settled(res)]
                            ELSE @[t]]]

SubReturn(s, k, res) ==
  [s EXCEPT !.spc[k] = "done",
            !.sResult[k] = res,
            !.subDisposed[k] = TRUE,
            !.tabs = @ \cap s.sPre[k],       \* closeTab of every other tab
            !.blockSub = [t \in Tasks |-> IF s.blockWait[t] = k THEN res ELSE @[t]],
            !.blockWait = [t \in Tasks |-> IF @[t] = k THEN 0 ELSE @[t]],
            !.batchRes = [t \in Tasks |->
                            IF s.sParent[k] = t /\ s.sPrompt[k] \in DOMAIN @[t]
                            THEN [@[t] EXCEPT ![s.sPrompt[k]] = Settled(res)]
                            ELSE @[t]]]

SubComplete(s, k, meta) ==
  emit(s, Ev("sub-llm-complete", "sub", s.sParent[k], s.sIter[k], k - 1, meta))

\* head of the sub-agent's for loop, up to `await this.llmClient.complete(...)`
SubLoopHead(s, k) ==
  IF s.si[k] >= MAX_SUB_ITERATIONS
  THEN SubReturn(SubComplete(s, k, "cap"), k, "error-cap")
  ELSE IF SubSeesAbort(s)
  THEN SubReturn(s, k, "cancelled")
  ELSE [s EXCEPT !.spc[k] = "llm", !.sSignal[k] = s.abortController,
                 !.sCalls[k] = @ + 1]

\* `continue` and the end of the loop body
SubContinue(s, k) == SubLoopHead([s EXCEPT !.si[k] = @ + 1], k)

\* the catch around llmClient.complete
SubLlmError(s, k) ==
  LET s1 == [s EXCEPT !.sLlmErrors[k] = @ + 1]
  IN  IF s1.sLlmErrors[k] >= 3
      THEN SubReturn(SubComplete(s1, k, "llm-failed"), k, "error-llm")
      ELSE SubContinue([s1 EXCEPT !.sLastUser[k] = "llm-error"], k)

\* the call of subRepl.execute(code) for a block of the response
SubStartBlock(s, k) ==
  [s EXCEPT !.lateBlock[s.sParent[k]] = @ \/ s.cancelSeen[s.sParent[k]],
            !.subFinalCalled[k] = FALSE,
            !.spc[k] = "exec"]

\* a response of the sub-agent's model with n code blocks
SubResponse(s, k, n) ==
  LET s1 == [s EXCEPT !.sLlmErrors[k] = 0]
  IN  IF n = 0
      THEN LET s2 == [s1 EXCEPT !.sNoCodes[k] = @ + 1,
                                !.sLastUser[k] = "continuation"]
           IN  IF s2.sNoCodes[k] >= MAX_NO_CODE_CONTINUATIONS
               THEN SubReturn(SubComplete(s2, k, "raw-text"), k, "raw-text")
               ELSE SubContinue(s2, k)
      ELSE SubStartBlock([s1 EXCEPT !.sNoCodes[k] = 0,
                                    !.sLastUser[k] = "none",
                                    !.sBlocks[k] = n,
                                    !.sBi[k] = 0], k)

\* subRepl.execute resolved; called tells whether the block reached _setFinal
SubAfterExecute(s, k, called) ==
  LET s1 == [s EXCEPT !.subFinalCalled[k] = called, !.sNested[k] = "none"]
  IN  IF called
      THEN SubReturn(SubComplete(s1, k, "final"), k, "final")
      ELSE IF SubSeesAbort(s1)
      THEN SubContinue([s1 EXCEPT !.sLastUser[k] = "code-executed"], k)
      ELSE IF s1.sBi[k] + 1 < s1.sBlocks[k]
      THEN SubStartBlock([s1 EXCEPT !.sBi[k] = @ + 1], k)
      ELSE SubContinue([s1 EXCEPT !.sLastUser[k] = "code-executed"], k)

\* tabManager.openTab: a new tab under the next id
OpenTab(s) ==
  [s EXCEPT !.tabSeq = @ + 1, !.tabs = @ \cup {s.tabSeq + 1}]

\* llm_query / llm_batch inside the sub-agent's REPL: the callbacks handed to
\* the sub-REPL resolve at once, with the error string or the rejected element
NestedCallCounted(s, k, batch) ==
  emit([s EXCEPT !.subCallCount = @ + 1,
                 !.sNested[k] = IF batch THEN "rejected" ELSE "error"],
       Ev("sub-llm-start", "sub", s.sParent[k], s.sIter[k], s.subCallCount, ""))

NestedCall(s, k, batch) ==
  [s EXCEPT !.sNested[k] = IF batch THEN "rejected" ELSE "error"]

\* handleSubCall past the limit: the error string, at once
RefuseSub(s, t) == [s EXCEPT !.blockSub[t] = "limit"]

\* llm_query(prompt, data) of a running block: handleSubCall up to
\* `await subRepl.initialize()`
StartSub(s, t, k, awaited, hasData) ==
  emit([s EXCEPT !.subCallCount = @ + 1,
                 !.spc[k] = "init",
                 !.sParent[k] = t,
                 !.sAwaited[k] = awaited,
                 !.sHasData[k] = hasData,
                 !.sIter[k] = s.iteration[t] + 1,
                 !.sLastUser[k] = "sub-task",
                 !.sPre[k] = s.tabs,
                 !.blockWait[t] = IF awaited THEN k ELSE @],
       Ev("sub-llm-start", "sub", t, s.iteration[t] + 1, s.subCallCount, ""))

\* llm_batch(prompts) of a running block: handleSubBatch calls handleSubCall
\* for the prompts in order, each up to its first await
RECURSIVE BatchFrom(_, _, _, _)
BatchFrom(s, t, i, n) ==
  IF i > n THEN s
  ELSE IF s.subCallCount >= MaxSubCallsOf(s.maxSubCalls)
  THEN BatchFrom([s EXCEPT !.batchRes[t] = Append(@, Settled("limit"))], t, i + 1, n)
  ELSE LET k  == s.subCallCount + 1
           s1 == StartSub(s, t, k, FALSE, FALSE)
       IN  BatchFrom([s1 EXCEPT !.sPrompt[k] = i,
                                !.batchRes[t] = Append(@, Pending)], t, i + 1, n)

HandleSubBatch(s, t, n) ==
  BatchFrom([s EXCEPT !.batchRes[t] = <<>>, !.nBatches = @ + 1], t, 1, n)

\* ============================ actions =====================================

\* the engine right after construction
InitEngine ==
  /\ status = "idle"
  /\ abortController = 0
  /\ aborted = [t \in Tasks |-> FALSE]
  /\ repl = 0
  /\ replFinalCalled = [t \in Tasks |-> FALSE]
  /\ replFinalValue = [t \in Tasks |-> "undefined"]
  /\ replDisposed = [t \in Tasks |-> FALSE]
  /\ subCallCount = 0
  /\ trackerIterations = 0
  /\ pc = [t \in Tasks |-> "none"]
  /\ maxIter = [t \in Tasks |-> 0]
  /\ iteration = [t \in Tasks |-> 0]
  /\ consecutiveNoCodes = [t \in Tasks |-> 0]
  /\ codeBlocks = [t \in Tasks |-> 0]
  /\ bi = [t \in Tasks |-> 0]
  /\ finalCalled = [t \in Tasks |-> FALSE]
  /\ execRepl = [t \in Tasks |-> 0]
  /\ tokens = [t \in Tasks |-> 0]
  /\ conversationHistory = [t \in Tasks |-> <<>>]
  /\ lastEv = [t \in Tasks |-> NoEvent]
  /\ nComplete = [t \in Tasks |-> 0]
  /\ nIterStart = [t \in Tasks |-> 0]
  /\ nError = [t \in Tasks |-> 0]
  /\ late = [t \in Tasks |-> FALSE]
  /\ nCancelComplete = 0
  /\ submitted = 0
  /\ rejected = 0
  /\ cancels = 0
  /\ outcome = [t \in Tasks |-> "none"]
  /\ cancelSeen = [t \in Tasks |-> FALSE]
  /\ finalArg = [t \in Tasks |-> "none"]
  /\ finalIter = [t \in Tasks |-> 0]
  /\ streamFailed = [t \in Tasks |-> FALSE]
  /\ blockError = [t \in Tasks |-> FALSE]
  /\ lateBlock = [t \in Tasks |-> FALSE]
  /\ lateIter = [t \in Tasks |-> FALSE]
  /\ blockWait = [t \in Tasks |-> 0]
  /\ spc = [k \in Subs |-> "none"]
  /\ sParent = [k \in Subs |-> 0]
  /\ sAwaited = [k \in Subs |-> FALSE]
  /\ sHasData = [k \in Subs |-> FALSE]
  /\ si = [k \in Subs |-> 0]
  /\ sNoCodes = [k \in Subs |-> 0]
  /\ sLlmErrors = [k \in Subs |-> 0]
  /\ sBlocks = [k \in Subs |-> 0]
  /\ sBi = [k \in Subs |-> 0]
  /\ sSignal = [k \in Subs |-> 0]
  /\ subFinalCalled = [k \in Subs |-> FALSE]
  /\ subDisposed = [k \in Subs |-> FALSE]
  /\ sResult = [k \in Subs |-> "none"]
  /\ sLastUser = [k \in Subs |-> "none"]
  /\ sCalls = [k \in Subs |-> 0]
  /\ sCancelAt = [k \in Subs |-> "none"]
  /\ nBatches = 0
  /\ batchRes = [t \in Tasks |-> <<>>]
  /\ sPrompt = [k \in Subs |-> 0]
  /\ sOpened = [k \in Subs |-> {}]
  /\ sPre = [k \in Subs |-> {}]
  /\ tabSeq = 0
  /\ tabs = {}
  /\ sNested = [k \in Subs |-> "none"]
  /\ iterOk = [t \in Tasks |-> TRUE]
  /\ sIter = [k \in Subs |-> 0]
  /\ orderOk = TRUE
  /\ lastOrd = NoEvent
  /\ tabsDirty = FALSE
  /\ tabResult = [produced |-> [type |-> "none", chars |-> 0, originalLength |-> 0, dataChars |-> 0], returned |-> [type |-> "none", chars |-> 0, originalLength |-> 0, dataChars |-> 0]]
  /\ execResult = [produced |-> [type |-> "none", chars |-> 0, originalLength |-> 0, dataChars |-> 0], returned |-> [type |-> "none", chars |-> 0, originalLength |-> 0, dataChars |-> 0]]
  /\ blocks = <<>>
  /\ response = <<>>
  /\ runtime = NewRuntime
  /\ pageChanges = <<>>
  /\ snapshots = <<>>
  /\ tabMap = <<>>
  /\ changedIn = [t \in Tasks |-> FALSE]
  /\ prompts = [r \in Runs |-> <<>>]
  /\ history = compactHistory(<<>>)
  /\ iterations = <<>>
  /\ noKeyLog = <<>>
  /\ apiKey = TRUE
  /\ blockSub = [t \in Tasks |-> "none"]

\* Runs without sub-agents: any cap up to MaxIter for a single task, caps up
\* to MaxIterWide when a second submit follows.
Init ==
  /\ InitEngine
  /\ maxIterations \in 1..MaxIter
  /\ maxSubCalls = 0
  /\ taskBudget = (IF maxIterations <= MaxIterWide THEN MaxTasks ELSE 1)
  /\ cancelBudget = MaxCancels
  /\ rejectBudget = MaxRejects
  /\ tabChanges = TRUE
  /\ nestedCalls = FALSE
  /\ subBudget = 0
  /\ batchBudget = 0
  /\ subData = {}
  /\ subResponses = {}
  /\ tabBudget = 0

\* RLM_SUBMIT_TASK -> engine.runTask(message)
Submit ==
  /\ apiKey
  /\ IF status = "running"
     THEN /\ rejected < rejectBudget
          /\ Commit(RejectTask(State))
     ELSE /\ submitted < taskBudget
          /\ Commit(StartTask(State, submitted + 1))

\* RLM_SUBMIT_TASK when `!config || !config.apiKey`: one RLM_ERROR, then return
NotConfigured(s) ==
  emit([s EXCEPT !.noKeyLog = Append(@, <<"error">>)],
       Ev("error", "ipc", 0, 0, 0, "not-configured"))

SubmitNoKey ==
  /\ ~apiKey
  /\ Len(noKeyLog) < MaxNoKey
  /\ Commit(NotConfigured(State))

\* SETTINGS_SET -> setSettings(config); ensureEngine(config) -> updateConfig:
\* a save that sets or clears the API key and keeps the other settings
SettingsSet(key) ==
  /\ key # apiKey
  /\ Commit([State EXCEPT !.apiKey = key])

\* RLM_CANCEL -> engine.cancel()
Cancel ==
  /\ cancels < cancelBudget
  /\ Commit([CancelEffect(State) EXCEPT
               !.cancels = @ + 1,
               !.cancelSeen = [t \in Tasks |-> @[t] \/ Active(pc[t])]])

\* repl.initialize() resolved; captureSnapshot; first loop head
InitReturn(t) ==
  /\ pc[t] = "init"
  /\ ~replDisposed[t]
  /\ Commit(LoopHead([State EXCEPT !.tabsDirty = FALSE], t))

\* repl.initialize() rejected: this return is outside the try/finally
InitFail(t) ==
  /\ pc[t] = "init"
  /\ Commit([emit(emit([State EXCEPT !.status = "error"],
                       Ev("error", "loop", t, 0, 0, "init")),
                  Ev("complete", "loop", t, 0, 0, "null"))
             EXCEPT !.pc[t] = "done", !.outcome[t] = "error-init"])

\* buildMessages resolved; streamCompletion is called
CtxReturn(t) ==
  /\ pc[t] = "ctx"
  /\ Commit([State EXCEPT !.pc[t] = "stream", !.tokens[t] = 0])

\* the stream delivers a token
StreamToken(t) ==
  /\ pc[t] = "stream"
  /\ ~aborted[t]
  /\ tokens[t] < MaxTokens
  /\ Commit(emit([State EXCEPT !.tokens[t] = @ + 1],
                 Ev("stream-token", "loop", t, iteration[t] + 1, 0, "")))

\* streamCompletion rejected (transport error, or the abort)
StreamFail(t) ==
  /\ pc[t] = "stream"
  /\ Commit(StreamError([State EXCEPT !.streamFailed[t] = TRUE], t))

\* streamCompletion resolved with a response holding n code blocks
StreamReturn(t, n) ==
  /\ pc[t] = "stream"
  /\ Commit(IF aborted[t]
            THEN CancelledExit(State, t)
            ELSE IF n = 0
            THEN NoCode(State, t)
            ELSE StartBlock([State EXCEPT !.consecutiveNoCodes[t] = 0,
                                          !.codeBlocks[t] = n,
                                          !.bi[t] = 0,
                                          !.finalCalled[t] = FALSE], t))

\* the block ran in the isolate and execute() resolved
ExecReturn(t, kind) ==
  /\ pc[t] = "exec"
  /\ blockWait[t] = 0
  /\ kind = "final_sub" => blockSub[t] # "none"
  /\ \A i \in DOMAIN batchRes[t] : batchRes[t][i] # Pending
  /\ Commit(AfterExecute(RunBlock(State, t, kind), t, IsErrorResult(State, t, kind)))

\* getEnvMetadata resolved: env-update, then the rest of the iteration
EnvReturn(t) ==
  /\ pc[t] = "envmeta"
  /\ Commit(Record(emit(State, Ev("env-update", "loop", t, iteration[t] + 1, 0, "")), t))

\* a tab of the snapshot navigates or changes its title or status while a
\* task runs
TabChange ==
  /\ tabChanges
  /\ ~tabsDirty
  /\ \E t \in Tasks : Active(pc[t])
  /\ Commit([State EXCEPT !.tabsDirty = TRUE])

\* the same change, made while the iteration of task t waits for the model or
\* for a code block
TabChangeIn(t) ==
  /\ tabChanges
  /\ ~tabsDirty
  /\ pc[t] \in {"stream", "exec"}
  /\ Commit([State EXCEPT !.tabsDirty = TRUE, !.changedIn[t] = TRUE])

Next ==
  \/ Submit
  \/ Cancel
  \/ \E t \in Tasks : InitReturn(t)
  \/ \E t \in Tasks : InitFail(t)
  \/ \E t \in Tasks : CtxReturn(t)
  \/ \E t \in Tasks : StreamToken(t)
  \/ \E t \in Tasks : StreamFail(t)
  \/ \E t \in Tasks, n \in 0..MaxBlocks : StreamReturn(t, n)
  \/ \E t \in Tasks, kind \in BlockKinds : ExecReturn(t, kind)
  \/ \E t \in Tasks : EnvReturn(t)
  \/ TabChange

Spec == Init /\ [][Next]_vars

\* what the environment does in a run with sub-agents
SubBudgets(subs, batches, cancelCalls, data, responses, tabsOpened, nested) ==
  /\ subBudget = subs
  /\ batchBudget = batches
  /\ cancelBudget = cancelCalls
  /\ subData = data
  /\ subResponses = responses
  /\ tabBudget = tabsOpened
  /\ tabChanges = (subs > 0 /\ cancelCalls = 0 /\ ~nested)
  /\ nestedCalls = nested

\* Runs with sub-agents started by llm_query: one task, a small cap, and one
\* of three regimes.
InitSub ==
  /\ InitEngine
  /\ taskBudget = 1
  /\ rejectBudget = 0
  /\ \/ \* llm_query and cancel()
        /\ maxIterations \in 1..MaxIterWide
        /\ maxSubCalls = MaxQuerySubs
        /\ SubBudgets(MaxQuerySubs, 0, MaxCancelsSub, {FALSE}, 0..MaxBlocks, 0, FALSE)
     \/ \* llm_query with the cap configured as 0, with and without data, the
        \* blocks of the sub-agent calling llm_query and llm_batch themselves
        /\ maxIterations \in 1..MaxIterWide
        /\ maxSubCalls = 0
        /\ SubBudgets(MaxQuerySubs, 0, 0, BOOLEAN, 0..MaxBlocks, 0, TRUE)
     \/ \* llm_query in a task of several iterations
        /\ maxIterations = MaxIterSub
        /\ maxSubCalls = MaxQuerySubs
        /\ SubBudgets(MaxQuerySubs, 0, 0, {FALSE}, {1}, 0, FALSE)

\* a block of task t, running in the isolate, calls llm_query and awaits the
\* result or not; past the limit the call resolves at once with an error string
SubCall(t, awaited, hasData) ==
  /\ pc[t] = "exec"
  /\ blockWait[t] = 0
  /\ ~replDisposed[execRepl[t]]
  /\ hasData \in subData
  /\ IF subCallCount >= MaxSubCallsOf(maxSubCalls)
     THEN Commit(RefuseSub(State, t))
     ELSE /\ subCallCount < subBudget
          /\ Commit(StartSub(State, t, subCallCount + 1, awaited, hasData))

\* subRepl.initialize() resolved
SubInitReturn(k) ==
  /\ spc[k] = "init"
  /\ Commit(IF sHasData[k]
            THEN [State EXCEPT !.spc[k] = "data"]
            ELSE SubLoopHead(State, k))

\* subRepl.initialize() rejected: the catch of handleSubCall
SubInitFail(k) ==
  /\ spc[k] = "init"
  /\ Commit(SubReturn(SubComplete(State, k, "exception"), k, "error-exc"))

\* the execute that defines __data resolved
SubDataReturn(k) ==
  /\ spc[k] = "data"
  /\ Commit(SubLoopHead(State, k))

\* llmClient.complete got its response: it throws 'Aborted' when the signal
\* it was handed is aborted by then
SubLlmReturn(k, n) ==
  /\ spc[k] = "llm"
  /\ n \in subResponses
  /\ Commit(IF sSignal[k] # 0 /\ aborted[sSignal[k]]
            THEN SubLlmError(State, k)
            ELSE SubResponse(State, k, n))

\* llmClient.complete rejected
SubLlmFail(k) ==
  /\ spc[k] = "llm"
  /\ Commit(SubLlmError(State, k))

\* a block of the sub-agent ran and subRepl.execute resolved
SubExecReturn(k, kind) ==
  /\ spc[k] = "exec"
  /\ Commit(SubAfterExecute(State, k,
              IsFinalKind(kind) /\ JsonRoundTrip(ArgOf(kind)) # "throws"))

\* a block of sub-agent k calls llm_query (or llm_batch) in its own REPL
SubNestedCall(k, batch) ==
  /\ nestedCalls
  /\ spc[k] = "exec"
  /\ sNested[k] = "none"
  /\ Commit(NestedCall(State, k, batch))

\* a block of task t calls openTab
MainOpenTab(t) ==
  /\ pc[t] = "exec"
  /\ blockWait[t] = 0
  /\ tabSeq < tabBudget
  /\ Commit(OpenTab(State))

\* a block of sub-agent k calls openTab
SubOpenTab(k) ==
  /\ spc[k] = "exec"
  /\ tabSeq < tabBudget
  /\ Commit([OpenTab(State) EXCEPT !.sOpened[k] = @ \cup {tabSeq + 1}])

\* a block of sub-agent k calls closeTab on a tab that is open
SubCloseTab(k, id) ==
  /\ spc[k] = "exec"
  /\ id \in tabs
  /\ Commit([State EXCEPT !.tabs = @ \ {id}])

NextSub ==
  \/ Next
  \/ \E t \in Tasks, awaited \in BOOLEAN, hasData \in BOOLEAN : SubCall(t, awaited, hasData)
  \/ \E k \in Subs : SubInitReturn(k)
  \/ \E k \in Subs : SubInitFail(k)
  \/ \E k \in Subs : SubDataReturn(k)
  \/ \E k \in Subs, n \in 0..MaxBlocks : SubLlmReturn(k, n)
  \/ \E k \in Subs : SubLlmFail(k)
  \/ \E k \in Subs, kind \in Kinds : SubExecReturn(k, kind)
  \/ \E k \in Subs, batch \in BOOLEAN : SubNestedCall(k, batch)

SpecSub == InitSub /\ [][NextSub]_vars

\* a block of task t calls llm_batch with n prompts and awaits the list
Batch(t, n) ==
  /\ pc[t] = "exec"
  /\ blockWait[t] = 0
  /\ batchRes[t] = <<>>
  /\ nBatches < batchBudget
  /\ ~replDisposed[execRepl[t]]
  /\ Commit(HandleSubBatch(State, t, n))

\* Runs in which a block calls llm_batch: one task of one iteration, the
\* sub-agents opening tabs, their model giving one block or failing.
InitBatch ==
  /\ InitEngine
  /\ taskBudget = 1
  /\ rejectBudget = 0
  /\ maxIterations = 1
  /\ maxSubCalls \in 1..MaxSubs
  /\ SubBudgets(0, MaxBatches, 0, {FALSE}, {1}, MaxTabs, FALSE)

NextBatch ==
  \/ Submit
  \/ \E t \in Tasks : InitReturn(t)
  \/ \E t \in Tasks : CtxReturn(t)
  \/ \E t \in Tasks : StreamReturn(t, 1)
  \/ \E t \in Tasks, kind \in BlockKinds : ExecReturn(t, kind)
  \/ \E t \in Tasks : EnvReturn(t)
  \/ \E t \in Tasks, n \in 1..MaxPrompts : Batch(t, n)
  \/ \E k \in Subs : SubInitReturn(k)
  \/ \E k \in Subs : SubInitFail(k)
  \/ \E k \in Subs : SubLlmReturn(k, 1)
  \/ \E k \in Subs : SubLlmFail(k)
  \/ \E k \in Subs, kind \in Kinds : SubExecReturn(k, kind)
  \/ \E k \in Subs : SubOpenTab(k)

SpecBatch == InitBatch /\ [][NextBatch]_vars

\* Runs of one sub-agent to its end: one task of one iteration whose block
\* calls llm_query, with or without data, and cancel(); every await of the
\* sub-agent (initialize, the model call, execute) resolves or rejects.
InitLive ==
  /\ InitEngine
  /\ taskBudget = 1
  /\ rejectBudget = 0
  /\ maxIterations = 1
  /\ maxSubCalls = MaxQuerySubs
  /\ SubBudgets(MaxQuerySubs, 0, MaxCancelsSub, BOOLEAN, 0..1, 0, TRUE)

SubStep(k) ==
  \/ SubInitReturn(k)
  \/ SubInitFail(k)
  \/ SubDataReturn(k)
  \/ \E n \in 0..1 : SubLlmReturn(k, n)
  \/ SubLlmFail(k)
  \/ \E kind \in Kinds : SubExecReturn(k, kind)

NextLive ==
  \/ Submit
  \/ Cancel
  \/ \E t \in Tasks : InitReturn(t)
  \/ \E t \in Tasks : CtxReturn(t)
  \/ \E t \in Tasks : StreamReturn(t, 1)
  \/ \E t \in Tasks, kind \in BlockKinds : ExecReturn(t, kind)
  \/ \E t \in Tasks : EnvReturn(t)
  \/ \E t \in Tasks, awaited \in BOOLEAN, hasData \in BOOLEAN : SubCall(t, awaited, hasData)
  \/ \E k \in Subs : SubStep(k)
  \/ \E k \in Subs, batch \in BOOLEAN : SubNestedCall(k, batch)

\* Weak fairness of SubStep(k), written out: SubStep(k) is enabled exactly
\* while k is between its start and its end, and every SubStep(k) moves k.
SubMoved(k) ==
  <<spc[k], si[k], sBi[k], sLlmErrors[k], sNoCodes[k]>>' #
  <<spc[k], si[k], sBi[k], sLlmErrors[k], sNoCodes[k]>>

FairSub(k) ==
  \/ []<>(spc[k] \in {"none", "done"})
  \/ []<><<SubMoved(k)>>_vars

SpecLive == InitLive /\ [][NextLive]_vars /\ \A k \in Subs : FairSub(k)

\* Runs in which the blocks open and close tabs: one task of one iteration,
\* one sub-agent started by llm_query, cancel().
InitTab ==
  /\ InitEngine
  /\ taskBudget = 1
  /\ rejectBudget = 0
  /\ maxIterations = 1
  /\ maxSubCalls = MaxQuerySubs
  /\ SubBudgets(MaxQuerySubs, 0, MaxCancelsSub, {FALSE}, 0..1, MaxTabs, FALSE)

NextTab ==
  \/ Submit
  \/ Cancel
  \/ \E t \in Tasks : InitReturn(t)
  \/ \E t \in Tasks : CtxReturn(t)
  \/ \E t \in Tasks : StreamReturn(t, 1)
  \/ \E t \in Tasks, kind \in BlockKinds : ExecReturn(t, kind)
  \/ \E t \in Tasks : EnvReturn(t)
  \/ \E t \in Tasks, awaited \in BOOLEAN : SubCall(t, awaited, FALSE)
  \/ \E k \in Subs : SubInitReturn(k)
  \/ \E k \in Subs : SubInitFail(k)
  \/ \E k \in Subs, n \in 0..1 : SubLlmReturn(k, n)
  \/ \E k \in Subs : SubLlmFail(k)
  \/ \E k \in Subs, kind \in Kinds : SubExecReturn(k, kind)
  \/ \E t \in Tasks : MainOpenTab(t)
  \/ \E k \in Subs : SubOpenTab(k)
  \/ \E k \in Subs, id \in TabIds : SubCloseTab(k, id)

SpecTab == InitTab /\ [][NextTab]_vars

\* ====================== properties of the engine ===========================

Done(t) == pc[t] = "done"

IsCancelMessage(v) == v \in {"cancelled", "cancelled-partial"}

\* number of no-code responses at the end of a conversation
RECURSIVE TrailingNoCode(_)
TrailingNoCode(h) ==
  IF Len(h) >= 3 /\ h[Len(h) - 1] = "assistant:nocode" /\ h[Len(h)] = "user:continue"
  THEN 1 + TrailingNoCode(SubSeq(h, 1, Len(h) - 3))
  ELSE 0

HasNoCode(h) == \E i \in 1..Len(h) : h[i] = "assistant:nocode"

\* C1: at most one runTask loop is active in the engine at any time, for
\* every interleaving of submit and cancel calls.
C1_AtMostOneLoop ==
  Cardinality({t \in Tasks : Active(pc[t])}) <= 1

\* C2: every task that ran has exactly one complete event, and no event of
\* the task follows that complete; stated for the runs with at most one call
\* of cancel(), where it already fails.
C2_ExactlyOneComplete ==
  cancels <= 1 =>
  \A t \in Tasks :
    /\ nComplete[t] <= 1
    /\ ~late[t]
    /\ (Done(t) => nComplete[t] = 1)

\* C3: a block of iteration k calling setFinal(x), x a value that has a JSON
\* form, ends the task within iteration k with status complete and
\* complete{final: the JSON copy of x}; no later iteration-start is emitted.
C3_SetFinalEndsTask ==
  \A t \in Tasks :
    (Done(t) /\ finalArg[t] \notin {"none", "undef"}) =>
      /\ outcome[t] = "complete-final"
      /\ lastEv[t].type = "complete"
      /\ lastEv[t].val = JsonRoundTrip(finalArg[t])
      /\ lastEv[t].iter = finalIter[t]
      /\ nIterStart[t] = finalIter[t]

\* C4: with cap N a task emits at most N iteration-start events; when every
\* response has code, no block calls setFinal, no model error occurs and the
\* task is not cancelled, it emits exactly N of them, ends complete and its
\* last event is complete with the 'Reached maximum iterations (N)' message.
C4_IterationCap ==
  \A t \in Tasks :
    /\ nIterStart[t] <= maxIter[t]
    /\ ( /\ Done(t)
         /\ outcome[t] \notin {"error-init", "error-llm"}
         /\ ~HasNoCode(conversationHistory[t])
         /\ outcome[t] # "error-nocode"
         /\ finalArg[t] = "none"
         /\ ~cancelSeen[t] )
       => /\ nIterStart[t] = maxIter[t]
          /\ outcome[t] = "complete-cap"
          /\ lastEv[t] = Ev("complete", "loop", t, maxIter[t], 0, "cap")

\* C5: a task on which cancel() was called while it ran, and none of whose
\* blocks called setFinal, ends with status cancelled and its last complete
\* event carries a cancellation message (REPL start-up failures apart).
C5_CancelEndsCancelled ==
  \A t \in Tasks :
    (Done(t) /\ cancelSeen[t] /\ finalArg[t] = "none" /\ outcome[t] # "error-init") =>
      /\ outcome[t] = "cancelled"
      /\ lastEv[t].type = "complete"
      /\ IsCancelMessage(lastEv[t].val)

\* C6: every call of cancel() emits complete{final: 'Task cancelled by user.'},
\* whether a loop is running, has ended, or no task was ever submitted.
C6_CancelAlwaysEmits ==
  nCancelComplete = cancels

\* two calls of cancel(), neither while the only task ran, both reported
C6_Witness ==
  /\ cancels = 2
  /\ nCancelComplete = 2
  /\ submitted = 1
  /\ outcome[1] = "error-llm"
  /\ ~cancelSeen[1]

\* C7: once cancel() has been called on a running task, no further code
\* block of the task begins to execute, neither in its own REPL nor in the
\* REPL of one of its sub-agents, and the task starts no further iteration.
C7_NoBlockAfterCancel ==
  \A t \in Tasks : ~lateBlock[t] /\ ~lateIter[t]

C9_StreamFailure ==
  \A t \in Tasks :
    streamFailed[t] =>
      /\ Done(t)
      /\ ~cancelSeen[t] =>
           /\ outcome[t] = "error-llm"
           /\ lastEv[t] = Ev("complete", "loop", t, nIterStart[t], 0, "null")
           /\ nError[t] = 1
      /\ cancelSeen[t] =>
           /\ outcome[t] = "cancelled"
           /\ nError[t] = 0

\* C10: a block whose execution raises does not abort the loop: its
\* code-result carries the error, no engine error event is emitted, the status
\* is left alone and the loop goes on to the next block or to the end of the
\* iteration (the task not being cancelled, the block not having called setFinal).
ExecStep(t) ==
  /\ pc[t] = "exec"
  /\ <<pc'[t], bi'[t]>> # <<pc[t], bi[t]>>

C10_BlockErrorContinues ==
  [][\A t \in Tasks :
       ( /\ ExecStep(t)
         /\ blockError'[t]
         /\ ~cancelSeen[t]
         /\ ~replFinalCalled'[execRepl[t]] )
       => /\ nError'[t] = nError[t]
          /\ status' = status
          /\ pc'[t] \in {"exec", "envmeta"}
          /\ (pc'[t] = "exec") <=> (bi[t] + 1 < codeBlocks[t])]_vars

\* sub-agents started on behalf of task t
Started(t) == Cardinality({k \in Subs : sParent[k] = t})

\* a step in which an llm_query of task t is refused for the limit
Refused(t) ==
  /\ blockSub[t] # "limit"
  /\ blockSub'[t] = "limit"
  /\ spc' = spc
  /\ pc[t] = "exec"

\* C11: with sub-call cap N a task starts at most N sub-agents, and an
\* attempt past the cap only resolves to the limit string: it starts nothing,
\* emits no event, and leaves the loop and the status as they are.
C11_SubCallCap ==
  [][\A t \in Tasks :
       /\ Started(t)' <= maxSubCalls'
       /\ Refused(t) =>
            /\ Started(t)' = Started(t)
            /\ subCallCount' = subCallCount
            /\ lastEv' = lastEv
            /\ nError' = nError
            /\ status' = status
            /\ pc' = pc]_vars

\* C12: with max_sub_calls = 0 no sub-agent is ever started, the first
\* llm_query resolves to the limit string, and a task whose block hands that
\* string to setFinal completes with it as final.
C12_ZeroSubCalls ==
  maxSubCalls = 0 =>
    /\ \A k \in Subs : spc[k] = "none"
    /\ subCallCount = 0
    /\ \A t \in Tasks :
         /\ blockSub[t] \in {"none", "limit"}
         /\ (Done(t) /\ finalArg[t] = "limit") =>
              /\ outcome[t] = "complete-final"
              /\ lastEv[t].val = "limit"

\* C13: a task ends complete with a final other than the cap message only if
\* a block of its last iteration called setFinal; in particular the last
\* response of such a task had code.
C13_OnlySetFinalSucceeds ==
  \A t \in Tasks :
    outcome[t] = "complete-final" =>
      /\ finalArg[t] # "none"
      /\ finalIter[t] = nIterStart[t]
      /\ consecutiveNoCodes[t] = 0


\* C14: within each iteration the window receives iteration-start, then
\* page-changes if there are any, then every stream-token, then for each
\* executed block i in increasing order code-generated{i} followed by
\* code-result{i} before any event of block i+1; no stream-token comes after a
\* code-generated of the same iteration.
C14_EventOrder == orderOk


\* C15: within one task the iteration-start events carry the numbers 1, 2,
\* 3, ... in order without gap or repeat, and every event that belongs to
\* iteration k (its tokens, page changes, blocks, environment update and the
\* events of the sub-agents its blocks started) is emitted before
\* iteration-start{k+1}.
C15_IterationsInOrder == \A t \in Tasks : iterOk[t]


\* C16: in each iteration the extracted blocks are executed in extractor
\* order, each at most once, in the one REPL of the task; after a block the
\* next block of the response runs exactly when there is one left, unless the
\* block called setFinal or the task is cancelled, and then no later block of
\* the response runs.
C16_BlocksInOrder ==
  [][\A t \in Tasks :
       /\ (pc[t] # "exec" /\ pc'[t] = "exec") => pc[t] = "stream" /\ bi'[t] = 0
       /\ pc'[t] = "exec" => execRepl'[t] = t /\ bi'[t] < codeBlocks'[t]
       /\ (pc[t] = "exec" /\ pc'[t] = "exec") =>
             /\ codeBlocks'[t] = codeBlocks[t]
             /\ bi'[t] \in {bi[t], bi[t] + 1}
       /\ ExecStep(t) =>
             IF replFinalCalled'[execRepl[t]] \/ aborted[t]
             THEN pc'[t] # "exec"
             ELSE (pc'[t] = "exec") <=> (bi[t] + 1 < codeBlocks[t])]_vars


\* a step in which a block of sub-agent k gets the result of a nested call
NestedStep(k) == sNested[k] = "none" /\ sNested'[k] # "none"

\* C17: sub-agents cannot spawn sub-agents: inside a sub-agent's REPL
\* llm_query resolves to the error string and llm_batch to a rejected-status
\* element, and such a call starts no sub-agent loop, emits no event and
\* leaves the task's sub-call counter unchanged.
C17_NoNestedSubAgents ==
  [][\A k \in Subs :
       NestedStep(k) =>
         /\ sNested'[k] \in {"error", "rejected"}
         /\ subCallCount' = subCallCount
         /\ spc' = spc
         /\ sParent' = sParent
         /\ lastEv' = lastEv
         /\ status' = status]_vars

C17_Witness ==
  \E k \in Subs : /\ sNested[k] = "rejected"
                   /\ spc[k] = "exec"
                   /\ subCallCount = 1
                   /\ sParent[k] \in Tasks


\* C18: when a sub-agent ends, by setFinal, iteration cap, repeated model
\* failure, no-code exhaustion, exception or cancellation, its REPL is
\* disposed and every tab it opened that is still open is closed before its
\* result string is delivered to the parent REPL.
C18_SubAgentCleansUp ==
  \A k \in Subs :
    sResult[k] # "none" =>
      /\ subDisposed[k]
      /\ sOpened[k] \cap tabs = {}
      /\ spc[k] = "done"

C18_Witness ==
  \E k \in Subs, t \in Tasks :
    /\ sResult[k] = "cancelled"
    /\ sOpened[k] # {}
    /\ sPre[k] \cap tabs # {}
    /\ sAwaited[k] /\ sParent[k] = t
    /\ blockSub[t] = "cancelled"


\* sub-agent j ends in this step by failing or by its iteration cap
PeerFails(j) ==
  /\ spc[j] \notin {"none", "done"}
  /\ spc'[j] = "done"
  /\ sResult'[j] \in {"error-llm", "error-exc", "error-cap"}

\* the list an llm_batch resolves to has one element per prompt, in prompt
\* order: the result of the sub-agent started for that prompt, or the refusal
BatchListOk(t) ==
  /\ \A i \in DOMAIN batchRes[t] :
        /\ batchRes[t][i].status \in {"pending", "fulfilled", "rejected"}
        /\ \A k \in Subs :
              (sParent[k] = t /\ sPrompt[k] = i) =>
                batchRes[t][i] = (IF spc[k] = "done" THEN Settled(sResult[k]) ELSE Pending)
        /\ (\A k \in Subs : ~(sParent[k] = t /\ sPrompt[k] = i)) =>
              batchRes[t][i] = Settled("limit")
  /\ \A k \in Subs : sParent[k] = t /\ sPrompt[k] > 0 => sPrompt[k] \in DOMAIN batchRes[t]

\* C19: llm_batch(prompts) resolves to a list with exactly one element per
\* prompt, in prompt order, each {status: 'fulfilled', value} or {status:
\* 'rejected', error}; a sub-agent that fails, is refused by the sub-call cap
\* or hits its iteration cap neither stops its peer sub-agents nor changes
\* their results: a peer keeps its place in its loop, its result and the tabs
\* it opened.
C19_BatchResults ==
  [][\A t \in Tasks :
       /\ BatchListOk(t)'
       /\ \A j, k \in Subs :
            (j # k /\ PeerFails(j) /\ spc[k] \notin {"none", "done"}) =>
              /\ spc'[k] = spc[k]
              /\ sResult'[k] = sResult[k]
              /\ sOpened[k] \cap tabs \subseteq tabs']_vars


\* C20: if the task is cancelled while a sub-agent is running, with its model
\* call in flight or a code block executing, in any of its iterations and
\* after any number of model failures, the sub-agent stops and its llm_query
\* resolves to the '[SUB-CALL CANCELLED]' string (or to the value the block
\* that was executing passed to setFinal).
C20_SubAgentCancelled ==
  \A k \in Subs :
    (sCancelAt[k] \in {"llm", "exec"} /\ spc[k] = "done") =>
      sResult[k] \in {"cancelled", "final"}


\* a step in which a model call of sub-agent k fails
LlmFailStep(k) == spc[k] = "llm" /\ sLlmErrors'[k] = sLlmErrors[k] + 1

\* C21: in a sub-agent a failed model call is fed back and retried; only the
\* third consecutive failure ends the sub-agent, which then returns the
\* 'LLM failed 3 consecutive times' string; a successful model call resets the
\* count, and a failure never produces an engine error event nor ends the
\* parent task.
C21_SubLlmRetry ==
  [][\A k \in Subs :
       /\ LlmFailStep(k) =>
            /\ nError' = nError /\ status' = status /\ pc' = pc
            /\ IF sLlmErrors'[k] >= 3
               THEN spc'[k] = "done" /\ sResult'[k] = "error-llm"
               ELSE \/ spc'[k] = "llm"
                    \/ SubSeesAbort(State) /\ sResult'[k] = "cancelled"
       /\ (spc[k] = "llm" /\ spc'[k] # "llm" /\ ~LlmFailStep(k)) => sLlmErrors'[k] = 0
       /\ (sResult[k] = "none" /\ sResult'[k] = "error-llm") =>
            LlmFailStep(k) /\ sLlmErrors'[k] = 3]_vars


\* the strings handleSubCall resolves to
SubResults == {"final", "raw-text", "cancelled", "error-cap", "error-llm", "error-exc"}

NoCodeStep(k) == spc[k] = "llm" /\ sNoCodes'[k] = sNoCodes[k] + 1

CodeStep(k) == spc[k] = "llm" /\ spc'[k] = "exec"

\* C23: in a sub-agent a response without code blocks gets a continuation
\* prompt; after three consecutive such responses the sub-agent returns the
\* raw text of the last response, and any response containing code resets the
\* consecutive count to zero.
C23_SubNoCode ==
  [][\A k \in Subs :
       /\ NoCodeStep(k) =>
            /\ sLastUser'[k] = "continuation"
            /\ sNoCodes'[k] >= 3 => spc'[k] = "done" /\ sResult'[k] = "raw-text"
            /\ sNoCodes'[k] < 3 => sResult'[k] # "raw-text"
       /\ CodeStep(k) => sNoCodes'[k] = 0
       /\ (sResult[k] = "none" /\ sResult'[k] = "raw-text") =>
            NoCodeStep(k) /\ sNoCodes'[k] = 3]_vars

C23_Witness ==
  \E k \in Subs : /\ sResult[k] = "raw-text"
                   /\ sNoCodes[k] = 3
                   /\ si[k] > 3
                   /\ blockSub[sParent[k]] = "raw-text"

\* C24: the REPL created when a task starts is disposed when that task ends,
\* on every exit path (setFinal, iteration cap, model error, no-code error,
\* cancellation, REPL initialisation failure); after a task has ended the
\* engine holds no REPL and no cancel handle of that task.
C24_ReplTornDown ==
  \A t \in Tasks :
    Done(t) => /\ replDisposed[t]
               /\ repl # t
               /\ abortController # t


Terminal == {"complete", "cancelled", "error"}

\* C25: the engine status follows Idle -> Running -> {Complete | Cancelled |
\* Error}: status is running exactly while a task loop is active, a terminal
\* status is entered only from running, and a terminal status changes again
\* only when a new task is submitted.
C25_StatusMachine ==
  [][/\ (status' = "running") <=> (\E t \in Tasks : Active(pc'[t]))
     /\ (status' \in Terminal /\ status' # status) => status = "running"
     /\ (status \in Terminal /\ status' # status) =>
          status' = "running" /\ submitted' # submitted]_vars



\* C26: runTask never throws or rejects: no call of runTask ends by an
\* exception leaving it (every outcome is one of the event-expressed ones),
\* and once the last call has ended the engine is not left running, so the
\* next submit is accepted.
C26_NeverThrows ==
  /\ \A t \in Tasks : outcome[t] # "thrown"
  /\ (\A t \in Tasks : ~Active(pc[t])) => status # "running"



\* ---- runs in which the settings are saved with and without an API key ----
InitCfg ==
  /\ InitEngine
  /\ maxIterations = 1
  /\ maxSubCalls = 0
  /\ taskBudget = MaxTasks
  /\ cancelBudget = MaxCancelsSub
  /\ rejectBudget = MaxRejects
  /\ tabChanges = FALSE
  /\ nestedCalls = FALSE
  /\ subBudget = 0
  /\ batchBudget = 0
  /\ subData = {}
  /\ subResponses = {}
  /\ tabBudget = 0

NextCfg ==
  \/ Submit
  \/ SubmitNoKey
  \/ \E key \in BOOLEAN : SettingsSet(key)
  \/ Cancel
  \/ \E t \in Tasks : InitReturn(t)
  \/ \E t \in Tasks : InitFail(t)
  \/ \E t \in Tasks : CtxReturn(t)
  \/ \E t \in Tasks : StreamFail(t)
  \/ \E t \in Tasks, n \in 0..MaxBlocks : StreamReturn(t, n)
  \/ \E t \in Tasks, kind \in BlockKinds : ExecReturn(t, kind)
  \/ \E t \in Tasks : EnvReturn(t)

SpecCfg == InitCfg /\ [][NextCfg]_vars

\* C27: a submit made while no API key is configured starts no task and sends
\* an error event followed by complete{final: null}; a REPL initialisation
\* failure at task start sends error followed by complete{final: null}.
C27_ConfigErrors ==
  [][/\ (noKeyLog' # noKeyLog) =>
          /\ submitted' = submitted
          /\ pc' = pc
          /\ noKeyLog' = Append(noKeyLog, <<"error", "complete-null">>)
     /\ \A t \in Tasks :
          (pc[t] = "init" /\ outcome'[t] = "error-init") =>
            /\ nError'[t] = nError[t] + 1
            /\ nComplete'[t] = nComplete[t] + 1
            /\ lastEv'[t] = Ev("complete", "loop", t, 0, 0, "null")]_vars

\* the half of C27 about a REPL initialisation failure, and that an
\* unconfigured submit starts no task
C27_InitFailureReported ==
  [][/\ (noKeyLog' # noKeyLog) => (submitted' = submitted /\ pc' = pc)
     /\ \A t \in Tasks :
          (pc[t] = "init" /\ outcome'[t] = "error-init") =>
            /\ nError'[t] = nError[t] + 1
            /\ nComplete'[t] = nComplete[t] + 1
            /\ lastEv'[t] = Ev("complete", "loop", t, 0, 0, "null")]_vars



\* ---- histories built record by record -----------------------------------
\* lengths of fullMetadata and of oneLinerSummary the records are drawn from
FullLens == {400, 9000, 13000}

OneLinerLens == {20, 600}

\* taskTracker.addIteration(record), then buildMessages compacts the history
AddIteration(full, oneLiner) ==
  /\ Len(iterations) < MaxRecords
  /\ LET its == Append(iterations, IterationRecord(Len(iterations) + 1, full, oneLiner))
     IN  Commit([State EXCEPT !.iterations = its, !.history = compactHistory(its)])

InitHist ==
  /\ InitEngine
  /\ maxIterations = MaxRecords
  /\ maxSubCalls = 0
  /\ taskBudget = 0
  /\ cancelBudget = 0
  /\ rejectBudget = 0
  /\ tabChanges = FALSE
  /\ nestedCalls = FALSE
  /\ subBudget = 0
  /\ batchBudget = 0
  /\ subData = {}
  /\ subResponses = {}
  /\ tabBudget = 0

NextHist == \E full \in FullLens, oneLiner \in OneLinerLens : AddIteration(full, oneLiner)

SpecHist == InitHist /\ [][NextHist]_vars

\* C28: the estimated token count of compactHistory's output is at most
\* 8,000 for every sequence of records, and when compaction was triggered and
\* at least three records exist the full metadata of the last three records
\* is in the output whole.
C28_HistoryBudget ==
  /\ estimateTokens(history.len) <= 8000
  /\ (history.compacted /\ Len(iterations) >= 3) =>
       {Len(iterations) - 2, Len(iterations) - 1, Len(iterations)} \subseteq history.verbatim

\* the second half of C28 alone
C28_RecentVerbatim ==
  (history.compacted /\ Len(iterations) >= 3) =>
    {Len(iterations) - 2, Len(iterations) - 1, Len(iterations)} \subseteq history.verbatim



\* ---- two runs whose block results differ beyond the preview ---------------
Heads == {"h1", "h2"}

Tails == {"t1", "t2"}

\* the results a block can have: nothing, a short string, a long string
BlockResults ==
  {Undefined} \cup {Str(200, h, "") : h \in Heads}
                \cup {Str(5000, h, t) : h \in Heads, t \in Tails}

\* what the two runs may return for the same block
SameUpToPreview(r1, r2) ==
  \/ r1 = r2
  \/ /\ r1.type = "string" /\ r2.type = "string"
     /\ r1.len = r2.len /\ r1.len > 300 /\ r1.head = r2.head

\* the text log(result) hands to onLog
LogText(result) ==
  IF result.type = "undefined" THEN <<"undefined", "">> ELSE <<result.head, result.tail>>

\* a block of the main loop: `log(x)` only emits rlm:log; the record keeps
\* summarize(code, result)
MainBlock(r1, r2, logged) ==
  /\ \A r \in Runs : Len(prompts[r]) < MaxParts
  /\ SameUpToPreview(r1, r2)
  /\ Commit([State EXCEPT
       !.prompts = [r \in Runs |->
          Append(@[r], fullMetadata(<<summarize("code", IF r = 1 THEN r1 ELSE r2)>>))]])

\* a block of a sub-agent that did not call setFinal: onLog pushes to subLogs
\* and the next user message carries the summaries and the log text
SubBlock(r1, r2, logged) ==
  /\ \A r \in Runs : Len(prompts[r]) < MaxParts
  /\ SameUpToPreview(r1, r2)
  /\ Commit([State EXCEPT
       !.prompts = [r \in Runs |->
          LET res == IF r = 1 THEN r1 ELSE r2
          IN  Append(@[r], continueMsg(<<summarize("code", res)>>,
                                       IF logged THEN <<LogText(res)>> ELSE <<>>))]])

InitPrompt ==
  /\ InitEngine
  /\ maxIterations = MaxParts
  /\ maxSubCalls = 0
  /\ taskBudget = 0
  /\ cancelBudget = 0
  /\ rejectBudget = 0
  /\ tabChanges = FALSE
  /\ nestedCalls = FALSE
  /\ subBudget = 0
  /\ batchBudget = 0
  /\ subData = {}
  /\ subResponses = {}
  /\ tabBudget = 0

NextPrompt ==
  \/ \E r1, r2 \in BlockResults, logged \in BOOLEAN : MainBlock(r1, r2, logged)
  \/ \E r1, r2 \in BlockResults, logged \in BOOLEAN : SubBlock(r1, r2, logged)

SpecPrompt == InitPrompt /\ [][NextPrompt]_vars

\* C29: no raw execution output enters a later prompt: a prompt holds of an
\* executed block only its code and the bounded summary of its result, text
\* passed to log() is never included, and two runs whose results differ only
\* beyond the preview produce identical prompts.
C29_MetadataOnly ==
  /\ \A r \in Runs : \A i \in 1..Len(prompts[r]) : prompts[r][i].logSection = <<>>
  /\ prompts[1] = prompts[2]

\* C29 for the prompts of the main loop alone
C29_MainMetadataOnly ==
  [][\A r1, r2 \in BlockResults, logged \in BOOLEAN :
       MainBlock(r1, r2, logged) =>
         /\ prompts'[1][Len(prompts'[1])] = prompts'[2][Len(prompts'[2])]
         /\ prompts'[1][Len(prompts'[1])].logSection = <<>>]_vars



\* `messages = [...conversationHistory, ...contextMessages]`: the list sent to
\* the model in the iteration task t is in
Messages(t) == conversationHistory[t] \o <<"user:context">>

Role(m) == IF m \in {"user:context", "user:continue"} THEN "user" ELSE "assistant"

Alternates(ms) ==
  /\ Len(ms) % 2 = 1
  /\ \A i \in 1..Len(ms) : Role(ms[i]) = (IF i % 2 = 1 THEN "user" ELSE "assistant")

\* C30: every message list sent to the model strictly alternates user and
\* assistant turns, starting with a user turn and ending with the one user
\* turn of the current iteration, after any mix of code iterations and
\* no-code continuations.
C30_Alternation ==
  \A t \in Tasks : pc[t] = "stream" => Alternates(Messages(t))

\* C30 for the runs in which every response so far held code
C30_AlternationCodeOnly ==
  \A t \in Tasks :
    (pc[t] = "stream" /\ ~HasNoCode(conversationHistory[t])) => Alternates(Messages(t))



\* C31: the cleanup that runs when the loop of task t ends disposes only the
\* REPL of t and clears only the cancel handle of t: a task u submitted later
\* and still running keeps its REPL undisposed and installed, and its cancel
\* handle stays the one cancel() aborts.
C31_CleanupOwnOnly ==
  [][\A t, u \in Tasks :
       (Active(pc[t]) /\ pc'[t] = "done" /\ u > t /\ Active(pc'[u])) =>
         /\ replDisposed'[u] = replDisposed[u]
         /\ (repl = u => repl' = u)
         /\ (abortController = u => abortController' = u)]_vars



\* C32: the cleanup at the end of sub-agent k closes only tabs that k itself
\* opened: every tab that is closed in the step in which k ends was opened by
\* k, so the tabs of a sibling still running in the same llm_batch stay open.
C32_ClosesOwnTabsOnly ==
  [][\A k \in Subs :
       (spc[k] \notin {"none", "done"} /\ spc'[k] = "done") =>
         (tabs \ tabs') \subseteq sOpened[k]]_vars



\* ---- runs of one task in which tabs change while it waits ------------------
InitPage ==
  /\ InitEngine
  /\ maxIterations \in 1..MaxIter
  /\ maxSubCalls = 0
  /\ taskBudget = 1
  /\ cancelBudget = MaxCancelsSub
  /\ rejectBudget = MaxRejects
  /\ tabChanges = TRUE
  /\ nestedCalls = FALSE
  /\ subBudget = 0
  /\ batchBudget = 0
  /\ subData = {}
  /\ subResponses = {}
  /\ tabBudget = 0

NextPage ==
  \/ Submit
  \/ Cancel
  \/ \E t \in Tasks : InitReturn(t)
  \/ \E t \in Tasks : CtxReturn(t)
  \/ \E t \in Tasks : StreamFail(t)
  \/ \E t \in Tasks, n \in 0..MaxBlocks : StreamReturn(t, n)
  \/ \E t \in Tasks, kind \in BlockKinds : ExecReturn(t, kind)
  \/ \E t \in Tasks : EnvReturn(t)
  \/ TabChange
  \/ \E t \in Tasks : TabChangeIn(t)

SpecPage == InitPage /\ [][NextPage]_vars

\* C33: a change of url, title or status of a snapshotted tab that happens
\* while iteration k of task t streams or executes its blocks is reported by
\* a page-changes event of iteration k+1: the step that starts iteration k+1
\* emits page-changes right after iteration-start.
C33_ChangeReported ==
  [][\A t \in Tasks :
       (changedIn[t] /\ nIterStart'[t] = nIterStart[t] + 1) =>
         /\ lastEv'[t].type = "page-changes"
         /\ lastEv'[t].iter = iteration'[t] + 1]_vars

\* the part of C33 that holds: a change made during an iteration whose
\* response held no code is reported by the next iteration
C33_ReportedAfterNoCode ==
  [][\A t \in Tasks :
       (changedIn[t] /\ pc[t] = "stream" /\ nIterStart'[t] = nIterStart[t] + 1) =>
         lastEv'[t].type = "page-changes"]_vars



\* sub-agent k ends in this step
SubEnds(k) == spc[k] \notin {"none", "done"} /\ spc'[k] = "done"

IsSubComplete(e, k) == e.type = "sub-llm-complete" /\ e.idx = k - 1

\* C34: the sub-llm-start of sub-agent k is followed by exactly one
\* sub-llm-complete with the same subCallIndex on every way k can end: the
\* step in which k ends emits it, no earlier step did, and the indexes of the
\* sub-agents of one task are distinct.
C34_StartHasComplete ==
  [][\A k \in Subs :
       /\ SubEnds(k) =>
            /\ IsSubComplete(lastEv'[sParent[k]], k)
            /\ ~IsSubComplete(lastEv[sParent[k]], k)
       /\ (~SubEnds(k) /\ sParent'[k] # 0) => ~IsSubComplete(lastEv'[sParent'[k]], k)]_vars

\* C34 for the sub-agents that do not end by seeing the cancel signal at the
\* head of their loop
C34_CompleteUnlessCancelled ==
  [][\A k \in Subs :
       (SubEnds(k) /\ sResult'[k] # "cancelled") =>
         IsSubComplete(lastEv'[sParent[k]], k)]_vars



\* ---- runs in which submits arrive while a task with a sub-agent runs -------
InitBusy ==
  /\ InitEngine
  /\ taskBudget = 1
  /\ rejectBudget = MaxRejects
  /\ maxIterations = MaxIterSub
  /\ maxSubCalls = MaxQuerySubs
  /\ SubBudgets(MaxQuerySubs, 0, 0, {FALSE}, {1}, 0, FALSE)

NextBusy ==
  \/ Submit
  \/ \E t \in Tasks : InitReturn(t)
  \/ \E t \in Tasks : InitFail(t)
  \/ \E t \in Tasks : CtxReturn(t)
  \/ \E t \in Tasks : StreamFail(t)
  \/ \E t \in Tasks, n \in 0..MaxBlocks : StreamReturn(t, n)
  \/ \E t \in Tasks, kind \in BlockKinds : ExecReturn(t, kind)
  \/ \E t \in Tasks : EnvReturn(t)
  \/ TabChange
  \/ \E t \in Tasks, awaited \in BOOLEAN : SubCall(t, awaited, FALSE)
  \/ \E k \in Subs : SubInitReturn(k)
  \/ \E k \in Subs : SubInitFail(k)
  \/ \E k \in Subs, n \in 0..MaxBlocks : SubLlmReturn(k, n)
  \/ \E k \in Subs : SubLlmFail(k)
  \/ \E k \in Subs, kind \in Kinds : SubExecReturn(k, kind)

SpecBusy == InitBusy /\ [][NextBusy]_vars

InitOverlap ==
  /\ InitEngine
  /\ maxIterations = MaxIterOverlap
  /\ maxSubCalls = 0
  /\ taskBudget = MaxTasksOverlap
  /\ cancelBudget = MaxCancelsSub
  /\ rejectBudget = 0
  /\ tabChanges = FALSE
  /\ nestedCalls = FALSE
  /\ subBudget = 0
  /\ batchBudget = 0
  /\ subData = {}
  /\ subResponses = {}
  /\ tabBudget = 0

NextOverlap ==
  \/ Submit
  \/ Cancel
  \/ \E t \in Tasks : InitReturn(t)
  \/ \E t \in Tasks : CtxReturn(t)
  \/ \E t \in Tasks, n \in 0..1 : StreamReturn(t, n)
  \/ \E t \in Tasks, kind \in {"plain", "final_str"} : ExecReturn(t, kind)
  \/ \E t \in Tasks : EnvReturn(t)

SpecOverlap == InitOverlap /\ [][NextOverlap]_vars

\* C36: when the prompt of iteration n of task t is built, the task tracker
\* holds n-1 records, so `this.iterations.length + 1`, the K of the line
\* 'Iteration: K of MAX', is the number carried by the iteration-start event
\* of that iteration.
C36_ReinforcementNumber ==
  [][\A t \in Tasks :
       (nIterStart'[t] = nIterStart[t] + 1 /\ pc'[t] = "ctx") =>
         /\ lastEv'[t].type \in {"iteration-start", "page-changes"}
         /\ trackerIterations' + 1 = lastEv'[t].iter]_vars

\* ---- tabs opening, closing and changing between snapshots and diffs -------
Urls == {"u1", "u2"}

Titles == {"t1", "t2"}

Statuses == {"loading", "ready"}

\* the map without the entry of id
Without(m, id) == [i \in DOMAIN m \ {id} |-> m[i]]

\* the map with id set to st
With(m, id, st) == [i \in DOMAIN m \cup {id} |-> IF i = id THEN st ELSE m[i]]

\* openTab: a new entry in TabManager.tabs
TabOpens(id, url) ==
  /\ id \notin DOMAIN tabMap
  /\ Commit([State EXCEPT !.tabMap = With(tabMap, id, TabState(url, "t1", "loading"))])

\* closeTab
TabCloses(id) ==
  /\ id \in DOMAIN tabMap
  /\ Commit([State EXCEPT !.tabMap = Without(tabMap, id)])

\* the page of a tab navigates, gets a title or finishes loading; tabs other
\* than the first only navigate
TabUpdates(id, st) ==
  /\ id \in DOMAIN tabMap
  /\ st # tabMap[id]
  /\ id = 1 \/ (st.title = tabMap[id].title /\ st.status = tabMap[id].status)
  /\ Commit([State EXCEPT !.tabMap = With(tabMap, id, st)])

\* TabManager.captureSnapshot()
CaptureSnapshot ==
  /\ snapshots # capture(tabMap)
  /\ Commit([State EXCEPT !.snapshots = capture(tabMap)])

\* TabManager.getChanges()
GetChanges ==
  /\ pageChanges # diff(snapshots, tabMap)
  /\ Commit([State EXCEPT !.pageChanges = diff(snapshots, tabMap)])

InitDiff ==
  /\ InitEngine
  /\ maxIterations = 1
  /\ maxSubCalls = 0
  /\ taskBudget = 0
  /\ cancelBudget = 0
  /\ rejectBudget = 0
  /\ tabChanges = FALSE
  /\ nestedCalls = FALSE
  /\ subBudget = 0
  /\ batchBudget = 0
  /\ subData = {}
  /\ subResponses = {}
  /\ tabBudget = 0

NextDiff ==
  \/ \E id \in TabIds, url \in Urls : TabOpens(id, url)
  \/ \E id \in TabIds : TabCloses(id)
  \/ \E id \in TabIds, url \in Urls, title \in Titles, loadStatus \in Statuses :
       TabUpdates(id, TabState(url, title, loadStatus))
  \/ CaptureSnapshot
  \/ GetChanges

SpecDiff == InitDiff /\ [][NextDiff]_vars

Fields == {"url", "title", "status"}

\* the changes the snapshot and the current map call for
Expected(snap, current) ==
  {Change(id, f, snap[id][f], current[id][f]) :
     <<id, f>> \in {p \in (DOMAIN snap \cap DOMAIN current) \X Fields :
                       snap[p[1]][p[2]] # current[p[1]][p[2]]}}

Listed(cs) == {cs[i] : i \in 1..Len(cs)}

\* C37: diff compares only tabs present in the last snapshot and in the
\* current state: one change per differing field among url, title and status,
\* old from the snapshot and new from the current state, nothing for tabs
\* opened or closed since; diff leaves the snapshot as it is (only capture
\* replaces it), and a diff right after capture is empty.
C37_DiffOfSnapshot ==
  [][/\ Listed(diff(snapshots, tabMap)') = Expected(snapshots', tabMap')
     /\ Len(diff(snapshots, tabMap)') = Cardinality(Expected(snapshots', tabMap'))
     /\ (pageChanges' # pageChanges) =>
          /\ snapshots' = snapshots
          /\ pageChanges' = diff(snapshots, tabMap)
     /\ (snapshots' # snapshots) =>
          /\ snapshots' = tabMap
          /\ diff(snapshots, tabMap)' = <<>>]_vars

\* a diff that reported two fields of one tab while another tab had been
\* opened since the snapshot
C37_Witness ==
  /\ Len(pageChanges) = 2
  /\ pageChanges = diff(snapshots, tabMap)
  /\ DOMAIN tabMap \ DOMAIN snapshots # {}
  /\ snapshots # <<>>



\* ---- one REPL running block after block -----------------------------------
FinalValues == {"a", "b"}

\* a caller runs `await repl.execute(code)`
ExecuteBegins ==
  /\ ~runtime.executing
  /\ runtime.executions < MaxExecs
  /\ Commit([State EXCEPT !.runtime = execute(runtime)])

\* the running block calls setFinal(value)
BlockSetsFinal(value) ==
  /\ runtime.executing
  /\ Commit([State EXCEPT !.runtime = setFinal(runtime, value)])

\* the running block starts work it does not await and that ends in setFinal
BlockDefers ==
  /\ runtime.executing
  /\ runtime.pending < MaxPending
  /\ Commit([State EXCEPT !.runtime.pending = @ + 1])

\* work left behind by a block reaches its setFinal(value), while a later
\* block runs or between two blocks
DeferredSetsFinal(value) ==
  /\ runtime.pending > 0
  /\ Commit([State EXCEPT !.runtime = [setFinal(runtime, value) EXCEPT !.pending = @ - 1]])

\* context.eval settled: execute returns and the caller reads isFinalCalled()
ExecuteReturns ==
  /\ runtime.executing
  /\ Commit([State EXCEPT !.runtime.executing = FALSE])

InitRepl ==
  /\ InitEngine
  /\ maxIterations = MaxExecs
  /\ maxSubCalls = 0
  /\ taskBudget = 0
  /\ cancelBudget = 0
  /\ rejectBudget = 0
  /\ tabChanges = FALSE
  /\ nestedCalls = FALSE
  /\ subBudget = 0
  /\ batchBudget = 0
  /\ subData = {}
  /\ subResponses = {}
  /\ tabBudget = 0

NextRepl ==
  \/ ExecuteBegins
  \/ \E value \in FinalValues : BlockSetsFinal(value)
  \/ BlockDefers
  \/ \E value \in FinalValues : DeferredSetsFinal(value)
  \/ ExecuteReturns

SpecRepl == InitRepl /\ [][NextRepl]_vars

\* C38: execute clears the final-called flag at its start, so isFinalCalled()
\* read when an execution has returned is true only if setFinal was invoked
\* during that execution; a setFinal made before that execution began never
\* carries over to it.
C38_FinalFlagPerExecution ==
  [][(runtime.executing /\ ~runtime'.executing) =>
       (runtime'.finalCalled <=> runtime'.invoked)]_vars

\* the third execution returned with the flag clear although setFinal had
\* been called by the first block and by work it left behind
C38_Witness ==
  /\ runtime.executions = 3
  /\ ~runtime.executing
  /\ ~runtime.finalCalled
  /\ runtime.finalValue = "b"
  /\ runtime.pending = 1



\* ---- responses built part by part, parsed when complete -------------------
\* the stream delivers one more part of the response, then the text so far
\* is parsed
ResponseGrows(seg) ==
  /\ Len(response) < MaxSegments
  /\ LET resp == Append(response, seg)
     IN  Commit([State EXCEPT !.response = resp, !.blocks = extractCodeBlocks(resp)])

InitParse ==
  /\ InitEngine
  /\ maxIterations = 1
  /\ maxSubCalls = 0
  /\ taskBudget = 0
  /\ cancelBudget = 0
  /\ rejectBudget = 0
  /\ tabChanges = FALSE
  /\ nestedCalls = FALSE
  /\ subBudget = 0
  /\ batchBudget = 0
  /\ subData = {}
  /\ subResponses = {}
  /\ tabBudget = 0

NextParse == \E seg \in Segments : ResponseGrows(seg)

SpecParse == InitParse /\ [][NextParse]_vars

Strategies(resp) ==
  <<extractFenced(resp), extractAnyFenced(resp),
    extractFromToolCallJSON(resp), extractBareCode(resp)>>

\* C39: extractCodeBlocks returns the result of the first strategy, in the
\* order repl-fenced, any-fenced, JSON code field, bare-code scan, that is not
\* empty; a response with a non-empty repl block yields exactly the repl
\* blocks in textual order and no other fenced block; the empty list is
\* returned only when all four strategies find nothing.
C39_FirstStrategyWins ==
  LET ss == Strategies(response) IN
  /\ \A i \in 1..4 :
       (ss[i] # <<>> /\ \A j \in 1..(i - 1) : ss[j] = <<>>) => blocks = ss[i]
  /\ Positions(response, {"repl"}) # {} =>
       /\ {blocks[i] : i \in 1..Len(blocks)} = Positions(response, {"repl"})
       /\ \A i \in 1..(Len(blocks) - 1) : blocks[i] < blocks[i + 1]
  /\ blocks = <<>> <=> \A i \in 1..4 : ss[i] = <<>>

\* a response with a js block between two repl blocks, and bare code after
C39_Witness ==
  /\ response = <<"repl", "fenced", "repl", "bare">>
  /\ blocks = <<1, 3>>



\* ---- caps.ts: capResult ----------------------------------------------------
EXEC_RESULT_CAP == 100000

\* A value is known by its type and its sizes: a string by its characters
\* (none of which JSON escapes), any other JSON value by the length of its
\* serialization, the sentinel by originalLength and the characters of its
\* data, the error object of execute by its message and stack.
Value(type, chars, originalLength, dataChars) ==
  [type |-> type, chars |-> chars, originalLength |-> originalLength,
   dataChars |-> dataChars]

NoValue == Value("none", 0, 0, 0)
StringValue(n) == Value("string", n, 0, 0)
ObjectValue(len) == Value("object", len, 0, 0)
UndefinedValue == Value("undefined", 0, 0, 0)
Truncated(originalLength, dataChars) == Value("truncated", 0, originalLength, dataChars)
RlmError(message, stack) == Value("rlm_error", message, 0, stack)

RECURSIVE Digits(_)
Digits(n) == IF n < 10 THEN 1 ELSE 1 + Digits(n \div 10)

\* JSON.stringify(undefined) is undefined
HasJSON(v) == v.type \notin {"undefined", "none"}

\* JSON.stringify(v).length
JSONLen(v) ==
  CASE v.type = "string" -> v.chars + 2
    [] v.type = "object" -> v.chars
    \* {"__truncated":true,"originalLength":N,"data":"..."}
    [] v.type = "truncated" -> 46 + Digits(v.originalLength) + v.dataChars + 2
    \* {"__rlm_error":true,"message":"...","stack":"..."}
    [] v.type = "rlm_error" -> 44 + v.chars + v.dataChars
    [] OTHER -> 0

\* data is result.slice(0, maxChars) for a string; for anything else the first
\* maxChars characters of the serialization, which no longer parse
capResult(result) ==
  IF HasJSON(result) /\ JSONLen(result) > EXEC_RESULT_CAP
  THEN Truncated(JSONLen(result),
                 IF result.type = "string"
                 THEN SliceLen(result.chars, EXEC_RESULT_CAP)
                 ELSE SliceLen(JSONLen(result), EXEC_RESULT_CAP))
  ELSE result

\* what blocks and pages produce
CharCounts == {0, 99998, 99999, 100000, 200000}
JSONLengths == {2, 100000, 100001}
MessageLengths == {10, 99950, 200000}
StackLengths == {0, 500, 2000}
Produced ==
  {StringValue(n) : n \in CharCounts} \cup {ObjectValue(n) : n \in JSONLengths}
    \cup {UndefinedValue}

\* execute: context.eval resolved with result
BlockReturns(result) ==
  Commit([State EXCEPT !.execResult =
            [produced |-> result, returned |-> capResult(result)]])

\* execute: the block returns what execInTab gave it
BlockReturnsTabResult ==
  /\ tabResult.returned.type # "none"
  /\ Commit([State EXCEPT !.execResult =
               [produced |-> tabResult.returned,
                returned |-> capResult(tabResult.returned)]])

\* execute: context.eval rejected with err
BlockThrows(message, stack) ==
  Commit([State EXCEPT !.execResult =
            [produced |-> NoValue,
             returned |-> RlmError(message, SliceLen(stack, 500))]])

\* _execInTab: tabManager.exec resolved with result
PageReturns(result) ==
  Commit([State EXCEPT !.tabResult =
            [produced |-> result, returned |-> capResult(result)]])

InitCap ==
  /\ InitEngine
  /\ maxIterations = 1
  /\ maxSubCalls = 0
  /\ taskBudget = 0
  /\ cancelBudget = 0
  /\ rejectBudget = 0
  /\ tabChanges = FALSE
  /\ nestedCalls = FALSE
  /\ subBudget = 0
  /\ batchBudget = 0
  /\ subData = {}
  /\ subResponses = {}
  /\ tabBudget = 0

NextCap ==
  \/ \E result \in Produced : BlockReturns(result)
  \/ BlockReturnsTabResult
  \/ \E message \in MessageLengths, stack \in StackLengths : BlockThrows(message, stack)
  \/ \E result \in Produced : PageReturns(result)

SpecCap == InitCap /\ [][NextCap]_vars

\* the value is within the cap, or it is the sentinel of what was produced
WithinCap(r) ==
  \/ ~HasJSON(r.returned)
  \/ JSONLen(r.returned) <= EXEC_RESULT_CAP
  \/ /\ r.returned.type = "truncated"
     /\ r.returned.originalLength > EXEC_RESULT_CAP
     /\ HasJSON(r.produced)
     /\ r.returned.originalLength = JSONLen(r.produced)

\* C40: every value returned by REPLRuntime.execute or by execInTab either
\* serializes to at most 100,000 characters or is a sentinel {__truncated,
\* originalLength, data} whose originalLength is above 100,000 and is the
\* serialized length of the value that was produced.
C40_ResultCapped == WithinCap(execResult) /\ WithinCap(tabResult)

\* C40, for every return but the error object of a block that threw
C40_CappedUnlessThrown ==
  /\ execResult.returned.type # "rlm_error" => WithinCap(execResult)
  /\ WithinCap(tabResult)

\* a block returned a value over the cap, and one returned a sentinel that
\* execInTab had made
C40_TruncatedReturned ==
  /\ execResult.returned.type = "truncated"
  /\ execResult.produced.type = "truncated"
  /\ tabResult.returned.type = "truncated"

====
